---- MODULE Spec2Model ----
(***************************************************************************)
(* A model of the gofeed parsing core: the CDATA/entity text utilities,    *)
(* the feed-type detector, the universal Parser front end, the goxpp pull  *)
(* cursor with the xml.Parser combinators, and the RSS grammar.            *)
(*                                                                         *)
(* Strings are sequences of one-character strings, indexed from 0 as in Go *)
(* through Slice/At.                                                       *)
(***************************************************************************)
EXTENDS Integers, Sequences, FiniteSets, TLC

VARIABLES
    sStr,    \* StripCDATA: the argument str
    sCurr,   \* StripCDATA: the local curr
    sBuf,    \* StripCDATA: the strings.Builder buf
    sPc,     \* StripCDATA: "idle" | "loop" | "done"
    doc,     \* the tokens the XML decoder yields for the input, in order
    xp,      \* the goxpp pull parser: tokens consumed and the current event
    err,     \* the err field of the parser that owns xp (the sticky error)
    cCall,   \* the last call made on the xml.Parser, and what it did
    cPc,     \* xml.Parser: "idle" | "ready" | "iter" (a caller ranges over the sequence
             \* MakeChildrenSeq returned) | "hung" (inside a call that never returns)
    rFmt,    \* the grammar that parses doc: "rss" (rss.Parser) | "atom" (atom.Parser)
    rSkipUnknown, \* Parse was called with options.WithSkipUnknownElements(true)
    rPc,     \* Parser.Parse: "idle" | "start" | "run" | "done" | "hang"
    rStack,  \* the parse loops entered and not yet left: "root", "channel", "item" | "feed", "entry"
    rRoot,   \* rss parseRoot: the locals channel and items
    rChan,   \* rss parseChannel: the Feed being filled (rss); atom parseRoot: the Feed (atom)
    rItem,   \* rss parseItem: the Item being filled; atom parseEntry: the Entry
    rOut,    \* Parser.Parse: the values returned
    dB,      \* DetectFeedBytes: the argument b
    dI,      \* DetectFeedBytes: the loop index i
    dFirst,  \* DetectFeedBytes: the local firstChar
    dJson,   \* DetectFeedBytes: what json.Valid reports for the remaining bytes
    dPc,     \* DetectFeedBytes: "idle" | "scan" | "switch" | "done"
    dType,   \* DetectFeedBytes: the FeedType returned
    fOpts,   \* gofeed.Parser: the opts field (the options object it points to)
    fTrans,  \* gofeed.Parser: the AtomTranslator, RSSTranslator, JSONTranslator fields
    pIn,     \* Parse, per call: the input (ReadFrom outcome, feed type, grammar outcome)
    pOwn,    \* Parse, per call: the options the caller passed
    pPc,     \* Parse, per call: "start" | "read" | "translate" | "keep" | "done"
    pRf,     \* Parse, per call: the grammar's feed (rf, af, jf)
    pResult, \* Parse, per call: the translator's feed (result)
    pRes,    \* Parse, per call: the values returned
    fnOp,    \* a text, date or URI helper called on its own: which one
    fnIn,    \* the helper's arguments and what it reads
    fnOut,   \* what the helper returns and leaves behind
    fnPc     \* the helper call: "idle" | "call" | "done"

cdataVars == <<sStr, sCurr, sBuf, sPc>>

xmlVars == <<doc, xp, err>>

cursorVars == <<cCall, cPc>>

rssVars == <<rFmt, rSkipUnknown, rPc, rStack, rRoot, rChan, rItem, rOut>>

detectVars == <<dB, dI, dFirst, dJson, dPc, dType>>

parseVars == <<fOpts, fTrans, pIn, pOwn, pPc, pRf, pResult, pRes>>

fnVars == <<fnOp, fnIn, fnOut, fnPc>>

vars == <<cdataVars, xmlVars, cursorVars, rssVars, detectVars, parseVars, fnVars>>

\* what the actions of each component leave alone
exceptCdata == <<xmlVars, cursorVars, rssVars, detectVars, parseVars, fnVars>>

exceptDetect == <<cdataVars, cursorVars, rssVars, parseVars, fnVars>>

exceptParse == <<cdataVars, xmlVars, cursorVars, rssVars, detectVars, fnVars>>

exceptCursor == <<cdataVars, rssVars, detectVars, parseVars, fnVars>>

exceptRss == <<cdataVars, cursorVars, detectVars, parseVars, fnVars>>

exceptFn == <<cdataVars, xmlVars, cursorVars, rssVars, detectVars, parseVars>>

Nil == "nil"

\* the state of a component that is not running
CdataIdle == sStr = <<>> /\ sCurr = 0 /\ sBuf = <<>> /\ sPc = "idle"

NewXp == [pos |-> 0, ev |-> "StartDocument", name |-> "", space |-> "",
          attrs |-> <<>>, text |-> <<>>]

XmlIdle == doc = <<>> /\ xp = NewXp /\ err = ""

NoArgs == [name |-> "", init |-> "nil", yld |-> "ok"]

NoCall == [op |-> "none", args |-> NoArgs, errBefore |-> "", xpBefore |-> NewXp,
           inits |-> 0, yields |-> 0, at |-> <<>>, ret |-> "", wraps |-> 0]

CursorIdle == cCall = NoCall /\ cPc = "idle"

RssIdle ==
    /\ rFmt = "rss" /\ rSkipUnknown = FALSE /\ rPc = "idle" /\ rStack = <<>> /\ rRoot = Nil /\ rChan = Nil /\ rItem = Nil
    /\ rOut = Nil

DetectIdle ==
    dB = <<>> /\ dI = 0 /\ dFirst = 0 /\ dJson = FALSE /\ dPc = "idle" /\ dType = "Unknown"

ParseIdle ==
    /\ fOpts = Nil /\ fTrans = Nil /\ pIn = <<>> /\ pOwn = <<>> /\ pPc = <<>>
    /\ pRf = <<>> /\ pResult = <<>> /\ pRes = <<>>

FnIdle == fnOp = "none" /\ fnIn = Nil /\ fnOut = Nil /\ fnPc = "idle"

----------------------------------------------------------------------------
(* Go string helpers *)

\* s[a:b] with 0-based half-open bounds
Slice(s, a, b) == SubSeq(s, a + 1, b)

\* s[a:]
SliceFrom(s, a) == SubSeq(s, a + 1, Len(s))

\* s[i], 0-based
At(s, i) == s[i + 1]

\* strings.HasPrefix
HasPrefix(s, p) == Len(p) <= Len(s) /\ SubSeq(s, 1, Len(p)) = p

\* strings.Index: the least 0-based offset at which sub occurs in s, or -1
Index(s, sub) ==
    LET hits == {i \in 0..(Len(s) - Len(sub)) : Slice(s, i, i + Len(sub)) = sub}
    IN  IF hits = {} THEN -1
        ELSE CHOOSE i \in hits : \A j \in hits : i <= j

\* strings.Contains
Contains(s, sub) == Index(s, sub) # -1

Space == " "

RECURSIVE TrimLeft(_)
TrimLeft(s) == IF s # <<>> /\ Head(s) = Space THEN TrimLeft(Tail(s)) ELSE s

RECURSIVE TrimRight(_)
TrimRight(s) ==
    IF s # <<>> /\ s[Len(s)] = Space THEN TrimRight(SubSeq(s, 1, Len(s) - 1)) ELSE s

\* strings.TrimSpace
TrimSpace(s) == TrimRight(TrimLeft(s))

----------------------------------------------------------------------------
(* html.UnescapeString, restricted to the named entities lt, gt and amp *)

Alnum == {"a", "b", "c", "g", "l", "m", "p", "t", "x", "y",
          "A", "C", "D", "T"}

\* the entity table: names with and without the trailing semicolon
EntityNames == {<<"l", "t", ";">>, <<"l", "t">>, <<"g", "t", ";">>, <<"g", "t">>,
                <<"a", "m", "p", ";">>, <<"a", "m", "p">>}

EntityChar(name) ==
    IF name[1] = "l" THEN "<" ELSE IF name[1] = "g" THEN ">" ELSE "&"

\* the length of the maximal run of alphanumerics at the head of s
RECURSIVE AlnumRun(_)
AlnumRun(s) == IF s # <<>> /\ Head(s) \in Alnum THEN 1 + AlnumRun(Tail(s)) ELSE 0

\* unescapeEntity on s = "&..." : <<replacement, number of characters consumed>>
UnescapeEntity(s) ==
    LET rest == Tail(s)
        run  == AlnumRun(rest)
        n    == IF run < Len(rest) /\ rest[run + 1] = ";" THEN run + 1 ELSE run
        name == SubSeq(rest, 1, n)
        maxLen == n - 1
        pref == {j \in 2..maxLen : SubSeq(name, 1, j) \in EntityNames}
    IN  IF n = 0 THEN <<SubSeq(s, 1, 1), 1>>
        ELSE IF name \in EntityNames THEN <<(<<EntityChar(name)>>), n + 1>>
        ELSE IF pref # {}
             THEN LET j == CHOOSE k \in pref : \A m \in pref : m <= k
                  IN  <<(<<EntityChar(name)>>), j + 1>>
        ELSE <<SubSeq(s, 1, n + 1), n + 1>>

RECURSIVE UnescapeString(_)
UnescapeString(s) ==
    IF s = <<>> THEN <<>>
    ELSE IF Head(s) = "&"
         THEN LET r == UnescapeEntity(s)
              IN  r[1] \o UnescapeString(SubSeq(s, r[2] + 1, Len(s)))
         ELSE <<Head(s)>> \o UnescapeString(Tail(s))

----------------------------------------------------------------------------
(* shared.StripCDATA *)

CDATA_START == <<"<", "!", "[", "C", "D", "A", "T", "A", "[">>

CDATA_END == <<"]", "]", ">">>

indexAt(str, substr, start) ==
    LET idx == Index(SliceFrom(str, start), substr)
    IN  IF idx > -1 THEN idx + start ELSE idx

\* the text written for a section found at start..end; text before start is not
\* written
StripWriteSectionMutant(str, curr, start, end) ==
    UnescapeString(Slice(str, start + Len(CDATA_START), end))

StripWriteSection(str, curr, start, end) ==
    Slice(str, start + Len(CDATA_START), end)

\* the next value of curr after the section ending at end
StripAdvance(curr, end) == curr + end + Len(CDATA_END)

\* what is written when no complete section follows curr
StripWriteTailMutant(str, curr) == SliceFrom(str, curr)

StripWriteTail(str, curr) == UnescapeString(SliceFrom(str, curr))

\* the pieces inputs are built from
Section(c) == CDATA_START \o c \o CDATA_END

Pieces == {<<"a">>, <<"&", "l", "t", ";">>, <<"&">>, CDATA_START, CDATA_END,
           Section(<<"b">>), Section(<<"&", "l", "t", ";">>)}

MaxPieces == 3

RECURSIVE Concats(_)
Concats(n) ==
    IF n = 0 THEN {<<>>}
    ELSE LET prev == Concats(n - 1)
         IN  prev \cup {p \o q : p \in Pieces, q \in prev}

CdataInputs == Concats(MaxPieces)

CdataInit ==
    /\ sStr \in CdataInputs /\ sCurr = 0 /\ sBuf = <<>> /\ sPc = "loop"
    /\ XmlIdle /\ CursorIdle /\ RssIdle /\ DetectIdle /\ ParseIdle /\ FnIdle

\* one iteration of the for loop of StripCDATA, or its exit
StripNoStart ==
    /\ sPc = "loop" /\ sCurr < Len(sStr)
    /\ indexAt(sStr, CDATA_START, sCurr) = -1
    /\ sBuf' = sBuf \o StripWriteTail(sStr, sCurr)
    /\ sPc' = "done"
    /\ UNCHANGED <<sStr, sCurr, exceptCdata>>

StripNoEnd ==
    /\ sPc = "loop" /\ sCurr < Len(sStr)
    /\ LET start == indexAt(sStr, CDATA_START, sCurr)
       IN  /\ start # -1
           /\ indexAt(sStr, CDATA_END, start) = -1
    /\ sBuf' = sBuf \o StripWriteTail(sStr, sCurr)
    /\ sPc' = "done"
    /\ UNCHANGED <<sStr, sCurr, exceptCdata>>

StripSection ==
    /\ sPc = "loop" /\ sCurr < Len(sStr)
    /\ LET start == indexAt(sStr, CDATA_START, sCurr)
           end   == indexAt(sStr, CDATA_END, start)
       IN  /\ start # -1
           /\ end # -1
           /\ sBuf' = sBuf \o StripWriteSection(sStr, sCurr, start, end)
           /\ sCurr' = StripAdvance(sCurr, end)
    /\ UNCHANGED <<sStr, sPc, exceptCdata>>

StripReturn ==
    /\ sPc = "loop" /\ sCurr >= Len(sStr)
    /\ sPc' = "done"
    /\ UNCHANGED <<sStr, sCurr, sBuf, exceptCdata>>

CdataNext == StripNoStart \/ StripNoEnd \/ StripSection \/ StripReturn

SpecCdata == CdataInit /\ [][CdataNext]_vars

----------------------------------------------------------------------------
(* Claims about StripCDATA *)

\* str = P + CDATA_START + C + CDATA_END with P = str[:n], P holding no marker
\* and C holding no closing marker
CdataOneSection(str, n) ==
    LET P    == Slice(str, 0, n)
        rest == SliceFrom(str, n + Len(CDATA_START))
    IN  /\ ~Contains(P, CDATA_START) /\ ~Contains(P, CDATA_END)
        /\ HasPrefix(SliceFrom(str, n), CDATA_START)
        /\ Index(rest, CDATA_END) = Len(rest) - Len(CDATA_END)

\* C10: for an input P + "<![CDATA[" + C + "]]>" in which P contains no marker,
\* StripCDATA returns P with its HTML entities unescaped, followed by C verbatim.
C10_KeepsTextBeforeMarker ==
    sPc = "done" =>
        \A n \in 0..Len(sStr) :
            CdataOneSection(sStr, n) =>
                LET rest == SliceFrom(sStr, n + Len(CDATA_START))
                    C    == Slice(rest, 0, Len(rest) - Len(CDATA_END))
                IN  sBuf = UnescapeString(Slice(sStr, 0, n)) \o C

\* C24: after a section is copied, scanning resumes at the character that
\* follows that section's closing marker, for every section of the input.
C24_ResumesAfterSection ==
    [][sPc = "loop" /\ sCurr' # sCurr =>
          sCurr' = indexAt(sStr, CDATA_END, indexAt(sStr, CDATA_START, sCurr))
                       + Len(CDATA_END)]_vars

\* the first opening marker of str has no closing marker after it
CdataUnmatched(str) ==
    /\ Index(str, CDATA_START) # -1
    /\ Index(SliceFrom(str, Index(str, CDATA_START)), CDATA_END) = -1

\* C11 as stated: when the first opening marker has no closing marker after
\* it, the text before the marker is unescaped and the input from the marker
\* onwards is copied as it is.
C11_TailCopiedAsIs ==
    sPc = "done" /\ CdataUnmatched(sStr) =>
        LET start == Index(sStr, CDATA_START)
        IN  sBuf = UnescapeString(Slice(sStr, 0, start)) \o SliceFrom(sStr, start)

\* C11 amended: when the first opening marker has no closing marker after it,
\* the whole input, the marker and what follows it included, is returned with
\* its HTML entities unescaped.
C11_TailUnescaped ==
    sPc = "done" /\ CdataUnmatched(sStr) => sBuf = UnescapeString(sStr)

\* StripCDATA("<![CDATA[&lt;") has returned "<![CDATA[<"
C11_Witness ==
    /\ sPc = "done"
    /\ sStr = CDATA_START \o <<"&", "l", "t", ";">>
    /\ sBuf = CDATA_START \o <<"<">>

\* str is one section, whose content holds no closing marker, followed by
\* text that holds no opening marker
CdataSectionThenText(str) ==
    /\ HasPrefix(str, CDATA_START)
    /\ Index(str, CDATA_END) # -1
    /\ ~Contains(SliceFrom(str, Index(str, CDATA_END) + Len(CDATA_END)), CDATA_START)

\* C12: for an input made of one section followed by trailing text, StripCDATA
\* returns the section's content verbatim followed by the trailing text with
\* its HTML entities unescaped.
C12_SectionThenText ==
    sPc = "done" /\ CdataSectionThenText(sStr) =>
        LET end == Index(sStr, CDATA_END)
        IN  sBuf = Slice(sStr, Len(CDATA_START), end)
                       \o UnescapeString(SliceFrom(sStr, end + Len(CDATA_END)))

\* StripCDATA("<![CDATA[&lt;]]>&lt;") has returned "&lt;<"
C12_Witness ==
    /\ sPc = "done"
    /\ sStr = Section(<<"&", "l", "t", ";">>) \o <<"&", "l", "t", ";">>
    /\ sBuf = <<"&", "l", "t", ";", "<">>

----------------------------------------------------------------------------
(* The goxpp pull parser over the token stream of encoding/xml.  The decoder *)
(* keeps tokens balanced: a stream is a well-nested prefix followed either   *)
(* by the end of input at depth 0 or by an Error token (a syntax error,      *)
(* which the decoder then reports on every later read).                      *)

STag(n, sp, at) == [k |-> "StartTag", n |-> n, sp |-> sp, at |-> at, tx |-> <<>>]

ETag(n, sp) == [k |-> "EndTag", n |-> n, sp |-> sp, at |-> <<>>, tx |-> <<>>]

Txt(t) == [k |-> "Text", n |-> "", sp |-> "", at |-> <<>>, tx |-> t]

Cmt == [k |-> "Comment", n |-> "", sp |-> "", at |-> <<>>, tx |-> <<>>]

XErr == [k |-> "Error", n |-> "", sp |-> "", at |-> <<>>, tx |-> <<>>]

\* strings.ToLower on the element names of the model
ToLower(n) ==
    CASE n = "RDF" -> "rdf"
      [] n = "Feed" -> "feed"
      [] n = "Enclosure" -> "enclosure"
      [] n = "Foo" -> "foo"
      [] n = "HREF" -> "href"
      [] n = "Text" -> "text"
      [] n = "Author" -> "author"
      [] n = "isClosedCaptioned" -> "isclosedcaptioned"
      [] n = "episodeType" -> "episodetype"
      [] OTHER -> n

\* XMLPullParser.NextToken: clears the token state, then reads one token
NextToken(d, x) ==
    LET r == [x EXCEPT !.name = "", !.space = "", !.attrs = <<>>, !.text = <<>>]
    IN  IF x.pos >= Len(d)
        THEN [p |-> [r EXCEPT !.ev = "EndDocument"], err |-> ""]
        ELSE LET t == d[x.pos + 1]
             IN  IF t.k = "Error"
                 THEN [p |-> r, err |-> "xml"]
                 ELSE [p |-> [pos |-> x.pos + 1, ev |-> t.k, name |-> t.n,
                              space |-> t.sp, attrs |-> t.at, text |-> t.tx],
                       err |-> ""]

\* XMLPullParser.Next: reads up to the next StartTag, EndTag, Text or EndDocument
RECURSIVE xppNext(_, _)
xppNext(d, x) ==
    LET r == NextToken(d, x)
    IN  IF r.err # "" THEN r
        ELSE IF r.p.ev \in {"StartTag", "EndTag", "Text", "EndDocument"} THEN r
        ELSE xppNext(d, r.p)

\* XMLPullParser.Skip: reads up to the EndTag that closes the current element;
\* err = "hang" stands for the call that never returns (EndDocument is
\* delivered again on every read)
RECURSIVE xppSkip(_, _)
xppSkip(d, x) ==
    LET r == NextToken(d, x)
    IN  IF r.err # "" THEN r
        ELSE IF r.p.ev = "StartTag"
             THEN LET r2 == xppSkip(d, r.p)
                  IN  IF r2.err # "" THEN r2 ELSE xppSkip(d, r2.p)
        ELSE IF r.p.ev = "EndTag" THEN r
        ELSE IF r.p.ev = "EndDocument" THEN [p |-> r.p, err |-> "hang"]
        ELSE xppSkip(d, r.p)

\* the loop of XMLPullParser.NextText once a Text token has been read
RECURSIVE NextTextLoop(_, _, _)
NextTextLoop(d, x, acc) ==
    IF x.ev # "Text" THEN [p |-> x, err |-> "", v |-> acc]
    ELSE LET r == NextToken(d, x)
         IN  IF r.err # "" THEN [p |-> r.p, err |-> r.err, v |-> <<>>]
             ELSE IF r.p.ev \notin {"EndTag", "Text"}
                  THEN [p |-> r.p, err |-> "text", v |-> <<>>]
             ELSE NextTextLoop(d, r.p, acc \o x.text)

\* XMLPullParser.NextText: the text up to the EndTag of the current element
NextText(d, x) ==
    IF x.ev # "StartTag" THEN [p |-> x, err |-> "text", v |-> <<>>]
    ELSE LET r == NextToken(d, x)
         IN  IF r.err # "" THEN [p |-> r.p, err |-> r.err, v |-> <<>>]
             ELSE IF r.p.ev \notin {"EndTag", "Text"}
                  THEN [p |-> r.p, err |-> "text", v |-> <<>>]
             ELSE NextTextLoop(d, r.p, <<>>)

\* XMLPullParser.Expect: the current event and, case-insensitively, its name
xppExpect(x, event, name) ==
    IF x.ev = event /\ (name = "*" \/ ToLower(x.name) = ToLower(name))
    THEN "" ELSE "expect"

\* xml.Parser.FindRoot: reads up to the first StartTag
RECURSIVE FindRoot(_, _)
FindRoot(d, x) ==
    LET r == xppNext(d, x)
    IN  IF r.err # "" THEN [p |-> r.p, err |-> "root:" \o r.err]
        ELSE IF r.p.ev = "StartTag" THEN r
        ELSE IF r.p.ev = "EndDocument" THEN [p |-> r.p, err |-> "noroot"]
        ELSE FindRoot(d, r.p)

----------------------------------------------------------------------------
(* DetectFeedBytes *)

\* unicode.IsSpace on a byte taken as a rune
IsSpace(ch) == ch \in {9, 10, 11, 12, 13, 32, 133, 160}

\* the bytes of the UTF-8/16/32 byte order marks
IsBomByte(ch) == ch \in {254, 255, 0, 239, 187, 191}

LessThan == 60

OpenBrace == 123

\* the byte alphabet of the inputs: space, EF, 00, '<', '{', 'x'
DetectBytes == {32, 239, 0, LessThan, OpenBrace, 120}

MaxBytes == 3

\* the token streams of the XML remainders
DetectDocs ==
    { <<STag("rss", "", <<>>), ETag("rss", "")>>,
      <<Cmt, STag("RDF", "", <<>>), ETag("RDF", "")>>,
      <<Txt(<<"a">>), STag("Feed", "", <<>>), ETag("Feed", "")>>,
      <<STag("html", "", <<>>), ETag("html", "")>>,
      <<Cmt>>,
      <<XErr>>,
      <<Cmt, XErr>>,
      <<STag("feed", "", <<>>), XErr>> }

RECURSIVE SeqsUpTo(_, _)
SeqsUpTo(S, n) ==
    IF n = 0 THEN {<<>>}
    ELSE LET prev == SeqsUpTo(S, n - 1)
         IN  prev \cup {Append(q, e) : q \in prev, e \in S}

\* b with its leading whitespace and BOM bytes removed
RECURSIVE Remainder(_)
Remainder(b) ==
    IF b # <<>> /\ (IsSpace(Head(b)) \/ IsBomByte(Head(b))) THEN Remainder(Tail(b)) ELSE b

DetectInit ==
    /\ dB \in SeqsUpTo(DetectBytes, MaxBytes)
    /\ dI = 0 /\ dFirst = 0 /\ dPc = "scan" /\ dType = "Unknown"
    /\ LET rest == Remainder(dB)
       IN  /\ doc \in (IF rest # <<>> /\ Head(rest) = LessThan THEN DetectDocs ELSE {<<>>})
           /\ dJson \in (IF rest # <<>> /\ Head(rest) = OpenBrace THEN BOOLEAN ELSE {FALSE})
    /\ xp = NewXp /\ err = ""
    /\ CdataIdle /\ CursorIdle /\ RssIdle /\ ParseIdle /\ FnIdle

\* for i, ch := range b: a whitespace or BOM byte is passed over
DetectSkipByte ==
    /\ dPc = "scan" /\ dI < Len(dB)
    /\ IsSpace(At(dB, dI)) \/ IsBomByte(At(dB, dI))
    /\ dI' = dI + 1
    /\ UNCHANGED <<dB, dFirst, dJson, dPc, dType, xmlVars, exceptDetect>>

\* the first other byte becomes firstChar, and b is cut to start at it
DetectFirstByte ==
    /\ dPc = "scan" /\ dI < Len(dB)
    /\ ~(IsSpace(At(dB, dI)) \/ IsBomByte(At(dB, dI)))
    /\ dFirst' = At(dB, dI)
    /\ dB' = SliceFrom(dB, dI)
    /\ dPc' = "switch"
    /\ UNCHANGED <<dI, dJson, dType, xmlVars, exceptDetect>>

\* the range loop ends with no byte left
DetectNoByte ==
    /\ dPc = "scan" /\ dI >= Len(dB)
    /\ dPc' = "switch"
    /\ UNCHANGED <<dB, dI, dFirst, dJson, dType, xmlVars, exceptDetect>>

\* switch strings.ToLower(p.Name)
DetectRootMutant(name) ==
    IF name = "rss" THEN "RSS" ELSE IF name = "feed" THEN "Atom" ELSE "Unknown"

DetectRoot(name) ==
    IF name \in {"rdf", "rss"} THEN "RSS" ELSE IF name = "feed" THEN "Atom" ELSE "Unknown"

\* case '<': FindRoot on a parser over b, then the switch on the root name
DetectXml ==
    /\ dPc = "switch" /\ dFirst = LessThan
    /\ LET r == FindRoot(doc, xp)
       IN  /\ xp' = r.p
           /\ dType' = IF r.err # "" THEN "Unknown" ELSE DetectRoot(ToLower(r.p.name))
    /\ dPc' = "done"
    /\ UNCHANGED <<dB, dI, dFirst, dJson, doc, err, exceptDetect>>

\* case '{': json.Valid(b)
DetectJson ==
    /\ dPc = "switch" /\ dFirst = OpenBrace
    /\ dType' = IF dJson THEN "JSON" ELSE "Unknown"
    /\ dPc' = "done"
    /\ UNCHANGED <<dB, dI, dFirst, dJson, xmlVars, exceptDetect>>

\* any other firstChar
DetectOther ==
    /\ dPc = "switch" /\ dFirst \notin {LessThan, OpenBrace}
    /\ dType' = "Unknown"
    /\ dPc' = "done"
    /\ UNCHANGED <<dB, dI, dFirst, dJson, xmlVars, exceptDetect>>

DetectNext ==
    \/ DetectSkipByte \/ DetectFirstByte \/ DetectNoByte
    \/ DetectXml \/ DetectJson \/ DetectOther

SpecDetect == DetectInit /\ [][DetectNext]_vars

----------------------------------------------------------------------------
(* Claims about DetectFeedBytes *)

\* the position of the root start tag in a token stream: the first StartTag,
\* with no decoder error before it; 0 when there is none
RootIndex(d) ==
    LET roots == {k \in 1..Len(d) :
                    /\ d[k].k = "StartTag"
                    /\ \A j \in 1..(k - 1) : d[j].k \notin {"StartTag", "Error"}}
    IN  IF roots = {} THEN 0 ELSE CHOOSE k \in roots : TRUE

\* the classification the claim describes, from the input alone
DetectExpected ==
    LET rest == Remainder(dB)
        k    == RootIndex(doc)
    IN  IF rest = <<>> THEN "Unknown"
        ELSE IF Head(rest) = LessThan
             THEN IF k = 0 THEN "Unknown"
                  ELSE IF ToLower(doc[k].n) \in {"rss", "rdf"} THEN "RSS"
                  ELSE IF ToLower(doc[k].n) = "feed" THEN "Atom"
                  ELSE "Unknown"
        ELSE IF Head(rest) = OpenBrace
             THEN IF dJson THEN "JSON" ELSE "Unknown"
        ELSE "Unknown"

\* C9: DetectFeedBytes skips leading whitespace and BOM bytes and classifies by
\* the first remaining byte: '<' gives RSS for a root named rss or rdf (lower-
\* cased), Atom for feed, Unknown for another root or no root; '{' gives JSON
\* exactly when the remaining bytes are valid JSON; anything else gives Unknown.
C9_DetectClassifies == dPc = "done" => dType = DetectExpected

\* a mixed-case RDF root behind skipped bytes has been classified as RSS
C9_Witness == dPc = "done" /\ dI > 0 /\ dType = "RSS" /\ xp.name = "RDF"

----------------------------------------------------------------------------
(* gofeed.Parser.Parse: overlapping calls on one Parser value *)

NumCalls == 2

\* a nil *Feed, and a nil grammar feed; original and call name the call whose
\* grammar feed is meant, 0 for none
NilFeed == [type |-> Nil, original |-> 0]

NilRf == [type |-> Nil, call |-> 0]

Calls == 1..NumCalls

\* what a call reads: whether ReadFrom succeeds, what DetectFeedBytes reports,
\* and whether the grammar accepts the document
ParseInputs ==
    { [read |-> FALSE, type |-> "Unknown", ok |-> FALSE],
      [read |-> TRUE,  type |-> "Unknown", ok |-> FALSE],
      [read |-> TRUE,  type |-> "RSS",     ok |-> FALSE],
      [read |-> TRUE,  type |-> "RSS",     ok |-> TRUE],
      [read |-> TRUE,  type |-> "Atom",    ok |-> TRUE] }

\* options.Default().Apply(opts...)
ParseOptions == [keep : BOOLEAN]

\* the translator fields: unset, or holding one of the Default translators
TransConfigs ==
    { [Atom |-> Nil, RSS |-> Nil, JSON |-> Nil],
      [Atom |-> "Atom", RSS |-> "Atom", JSON |-> "JSON"] }

ParseInit ==
    /\ fOpts = Nil
    /\ fTrans \in TransConfigs
    /\ pIn \in [Calls -> ParseInputs]
    /\ pOwn \in [Calls -> ParseOptions]
    /\ pPc = [c \in Calls |-> "start"]
    /\ pRf = [c \in Calls |-> NilRf]
    /\ pResult = [c \in Calls |-> NilFeed]
    /\ pRes = [c \in Calls |-> [feed |-> NilFeed, err |-> ""]]
    /\ CdataIdle /\ XmlIdle /\ CursorIdle /\ RssIdle /\ DetectIdle /\ FnIdle

\* tr := f.XTranslator; if tr == nil { tr = &DefaultXTranslator{} }
TranslatorFor(trans, type) == IF trans[type] = Nil THEN type ELSE trans[type]

\* Default{RSS,Atom,JSON}Translator.Translate: the feed must be of its format
TranslateMutant(tr, rf) ==
    [feed |-> [type |-> rf.type, original |-> 0], err |-> ""]

Translate(tr, rf) ==
    IF tr = rf.type
    THEN [feed |-> [type |-> rf.type, original |-> 0], err |-> ""]
    ELSE [feed |-> NilFeed, err |-> "Feed did not match expected type"]

\* f.opts = options.Default().Apply(opts...)
ParseApply(c) ==
    /\ pPc[c] = "start"
    /\ fOpts' = pOwn[c]
    /\ pPc' = [pPc EXCEPT ![c] = "read"]
    /\ UNCHANGED <<fTrans, pIn, pOwn, pRf, pResult, pRes, exceptParse>>

\* buf.ReadFrom, DetectFeedBytes, the switch, and the grammar's Parse with
\* options.From(f.opts)
ParseGrammar(c) ==
    /\ pPc[c] = "read"
    /\ IF ~pIn[c].read
       THEN /\ pRes' = [pRes EXCEPT ![c] = [feed |-> NilFeed, err |-> "detect: read"]]
            /\ pPc' = [pPc EXCEPT ![c] = "done"]
            /\ UNCHANGED pRf
       ELSE IF pIn[c].type = "Unknown"
       THEN /\ pRes' = [pRes EXCEPT ![c] = [feed |-> NilFeed, err |-> "ErrFeedTypeNotDetected"]]
            /\ pPc' = [pPc EXCEPT ![c] = "done"]
            /\ UNCHANGED pRf
       ELSE IF ~pIn[c].ok
       THEN /\ pRes' = [pRes EXCEPT ![c] = [feed |-> NilFeed, err |-> "grammar"]]
            /\ pPc' = [pPc EXCEPT ![c] = "done"]
            /\ UNCHANGED pRf
       ELSE /\ pRf' = [pRf EXCEPT ![c] = [type |-> pIn[c].type, call |-> c]]
            /\ pPc' = [pPc EXCEPT ![c] = "translate"]
            /\ UNCHANGED pRes
    /\ UNCHANGED <<fOpts, fTrans, pIn, pOwn, pResult, exceptParse>>

\* result, err := tr.Translate(rf, f.opts)
ParseTranslate(c) ==
    /\ pPc[c] = "translate"
    /\ LET r == Translate(TranslatorFor(fTrans, pRf[c].type), pRf[c])
       IN  IF r.err # ""
           THEN /\ pRes' = [pRes EXCEPT ![c] = [feed |-> NilFeed, err |-> "gofeed: translate"]]
                /\ pPc' = [pPc EXCEPT ![c] = "done"]
                /\ UNCHANGED pResult
           ELSE /\ pResult' = [pResult EXCEPT ![c] = r.feed]
                /\ pPc' = [pPc EXCEPT ![c] = "keep"]
                /\ UNCHANGED pRes
    /\ UNCHANGED <<fOpts, fTrans, pIn, pOwn, pRf, exceptParse>>

\* if f.keepOriginalFeed() { result.OriginalFeed = rf }; return result, nil
ParseKeep(c) ==
    /\ pPc[c] = "keep"
    /\ LET result == IF fOpts.keep THEN [pResult[c] EXCEPT !.original = pRf[c].call]
                     ELSE pResult[c]
       IN  /\ pResult' = [pResult EXCEPT ![c] = result]
           /\ pRes' = [pRes EXCEPT ![c] = [feed |-> result, err |-> ""]]
    /\ pPc' = [pPc EXCEPT ![c] = "done"]
    /\ UNCHANGED <<fOpts, fTrans, pIn, pOwn, pRf, exceptParse>>

ParseNext ==
    \E c \in Calls :
        ParseApply(c) \/ ParseGrammar(c) \/ ParseTranslate(c) \/ ParseKeep(c)

SpecParse == ParseInit /\ [][ParseNext]_vars

----------------------------------------------------------------------------
(* Claims about gofeed.Parser.Parse *)

\* detection, the grammar or the translator reports an error for call c
ParseReportsError(c) ==
    IF ~pIn[c].read \/ pIn[c].type = "Unknown" \/ ~pIn[c].ok THEN TRUE
    ELSE fTrans[pIn[c].type] \notin {Nil, pIn[c].type}

\* C4: every call to Parse returns either a non-nil feed with a nil error or a
\* nil feed with a non-nil error, and never a feed when detection, the grammar
\* or the translator reported an error.
C4_FeedXorError ==
    \A c \in Calls :
        pPc[c] = "done" =>
            /\ (pRes[c].feed # NilFeed) <=> (pRes[c].err = "")
            /\ ParseReportsError(c) => pRes[c].feed = NilFeed

\* one call has returned a feed and another the translator's error
C4_Witness ==
    \E c, d \in Calls :
        /\ pPc[c] = "done" /\ pRes[c].feed # NilFeed
        /\ pPc[d] = "done" /\ pRes[d].err = "gofeed: translate"

\* what call c returns when no other call runs on the Parser
ParseAlone(c) ==
    IF ParseReportsError(c)
    THEN [feed |-> NilFeed,
          err |-> IF ~pIn[c].read THEN "detect: read"
                  ELSE IF pIn[c].type = "Unknown" THEN "ErrFeedTypeNotDetected"
                  ELSE IF ~pIn[c].ok THEN "grammar"
                  ELSE "gofeed: translate"]
    ELSE [feed |-> [type |-> pIn[c].type,
                    original |-> IF pOwn[c].keep THEN c ELSE 0],
          err |-> ""]

\* C5: when Parse calls overlap on one shared Parser, each call's result is the
\* result it would have alone, a function of its own input and own options.
C5_AsIfAlone == \A c \in Calls : pPc[c] = "done" => pRes[c] = ParseAlone(c)

----------------------------------------------------------------------------
(* xml.Parser (internal/xml/reader.go): the cursor and its combinators, as   *)
(* operators on the pull parser x and the sticky error e.  The callbacks a   *)
(* caller passes are named by what they do: init is "nil", "ok" or "fail";   *)
(* yield is "ok" or "fail", and for ParsingElement also "skip" or "text"     *)
(* (it consumes the child with Skip or Text).                                *)

\* the for loop of Parser.Next
RECURSIVE NextLoop(_, _)
NextLoop(d, x) ==
    LET r == xppNext(d, x)
    IN  IF r.err # "" THEN [p |-> r.p, ret |-> "next: " \o r.err]
        ELSE IF r.p.ev \in {"EndTag", "StartTag"} THEN [p |-> r.p, ret |-> ""]
        ELSE IF r.p.ev = "EndDocument" THEN [p |-> r.p, ret |-> "next: end of document"]
        ELSE NextLoop(d, r.p)

\* Parser.Next: the sticky error if there is one, else the next Start/EndTag
ParserNextMutant(d, x, e) == NextLoop(d, x)

ParserNext(d, x, e) == IF e # "" THEN [p |-> x, ret |-> e] ELSE NextLoop(d, x)

\* rss Parser.nextTag: the same over rp.p and rp.err
nextTagMutant(d, x, e) == NextLoop(d, x)

nextTag(d, x, e) == IF e # "" THEN [p |-> x, ret |-> e] ELSE NextLoop(d, x)

\* Parser.Text
ParserText(d, x, e) ==
    LET r == NextText(d, x)
    IN  IF r.err # "" THEN [p |-> r.p, err |-> "text: " \o r.err, v |-> <<>>]
        ELSE [p |-> r.p, err |-> e, v |-> TrimSpace(r.v)]

\* Parser.Skip
ParserSkip(d, x, e) ==
    LET r == xppSkip(d, x)
    IN  [p |-> r.p, err |-> IF r.err # "" THEN "skip: " \o r.err ELSE e,
         hang |-> r.err = "hang"]

\* Parser.Expect
ParserExpect(x, event, name) ==
    IF xppExpect(x, event, name) # "" THEN "expect " \o name ELSE ""

\* what a combinator call leaves: the pull parser, the sticky error, the error
\* returned, how often init and yield ran, and whether the call hangs; at
\* lists the tokens the cursor was on at the calls of ParsingElement's yield
Outcome(x, e, ret, inits, yields) ==
    [p |-> x, err |-> e, ret |-> ret, inits |-> inits, yields |-> yields,
     at |-> <<>>, hang |-> FALSE]

\* the outcome of ParsingElement, yield having run at the tokens of seen
LoopOutcome(x, e, ret, inits, seen) ==
    [Outcome(x, e, ret, inits, Len(seen)) EXCEPT !.at = seen]

\* Parser.WithSkip
WithSkipMutant(d, x, e, name, yld) ==
    IF ParserExpect(x, "StartTag", name) # ""
    THEN Outcome(x, e, ParserExpect(x, "StartTag", name), 0, 0)
    ELSE IF yld = "fail" THEN Outcome(x, e, "yield", 0, 1)
    ELSE Outcome(x, e, ParserExpect(x, "EndTag", name), 0, 1)

WithSkip(d, x, e, name, yld) ==
    IF ParserExpect(x, "StartTag", name) # ""
    THEN Outcome(x, e, ParserExpect(x, "StartTag", name), 0, 0)
    ELSE IF yld = "fail" THEN Outcome(x, e, "yield", 0, 1)
    ELSE LET s == ParserSkip(d, x, e)
         IN  IF s.hang THEN [Outcome(s.p, s.err, "", 0, 1) EXCEPT !.hang = TRUE]
             ELSE IF s.err # "" THEN Outcome(s.p, s.err, s.err, 0, 1)
             ELSE Outcome(s.p, s.err, ParserExpect(s.p, "EndTag", name), 0, 1)

\* Parser.WithText
WithText(d, x, e, name, init, yld) ==
    LET n == IF init = "nil" THEN 0 ELSE 1
    IN  IF ParserExpect(x, "StartTag", name) # ""
        THEN Outcome(x, e, ParserExpect(x, "StartTag", name), 0, 0)
        ELSE IF init = "fail" THEN Outcome(x, e, "init", 1, 0)
        ELSE LET t == ParserText(d, x, e)
             IN  IF t.err = "" /\ yld = "fail" THEN Outcome(t.p, t.err, "yield", n, 1)
                 ELSE IF t.err # "" THEN Outcome(t.p, t.err, t.err, n, 0)
                 ELSE Outcome(t.p, t.err, ParserExpect(t.p, "EndTag", name), n, 1)

\* the for loop of Parser.ParsingElement, yield having run at the tokens of seen
RECURSIVE ParsingLoopMutant(_, _, _, _, _, _, _)
ParsingLoopMutant(d, x, e, name, yld, n, seen) ==
    LET r == ParserNext(d, x, e)
    IN  IF r.ret # "" THEN LoopOutcome(r.p, e, "next element: " \o r.ret, n, seen)
        ELSE IF r.p.ev = "EndTag" \/ Len(seen) = 1
             THEN LoopOutcome(r.p, e, ParserExpect(r.p, "EndTag", name), n, seen)
        ELSE IF yld = "fail" THEN LoopOutcome(r.p, e, "yield", n, Append(seen, r.p.pos))
        ELSE IF yld = "skip"
             THEN LET s == ParserSkip(d, r.p, e)
                  IN  IF s.hang
                      THEN [LoopOutcome(s.p, s.err, "", n, Append(seen, r.p.pos))
                                EXCEPT !.hang = TRUE]
                      ELSE ParsingLoopMutant(d, s.p, s.err, name, yld, n, Append(seen, r.p.pos))
        ELSE IF yld = "text"
             THEN LET t == ParserText(d, r.p, e)
                  IN  ParsingLoopMutant(d, t.p, t.err, name, yld, n, Append(seen, r.p.pos))
        ELSE ParsingLoopMutant(d, r.p, e, name, yld, n, Append(seen, r.p.pos))

RECURSIVE ParsingLoop(_, _, _, _, _, _, _)
ParsingLoop(d, x, e, name, yld, n, seen) ==
    LET r == ParserNext(d, x, e)
    IN  IF r.ret # "" THEN LoopOutcome(r.p, e, "next element: " \o r.ret, n, seen)
        ELSE IF r.p.ev = "EndTag"
             THEN LoopOutcome(r.p, e, ParserExpect(r.p, "EndTag", name), n, seen)
        ELSE IF yld = "fail" THEN LoopOutcome(r.p, e, "yield", n, Append(seen, r.p.pos))
        ELSE IF yld = "skip"
             THEN LET s == ParserSkip(d, r.p, e)
                  IN  IF s.hang
                      THEN [LoopOutcome(s.p, s.err, "", n, Append(seen, r.p.pos))
                                EXCEPT !.hang = TRUE]
                      ELSE ParsingLoop(d, s.p, s.err, name, yld, n, Append(seen, r.p.pos))
        ELSE IF yld = "text"
             THEN LET t == ParserText(d, r.p, e)
                  IN  ParsingLoop(d, t.p, t.err, name, yld, n, Append(seen, r.p.pos))
        ELSE ParsingLoop(d, r.p, e, name, yld, n, Append(seen, r.p.pos))

\* Parser.ParsingElement
ParsingElement(d, x, e, name, init, yld) ==
    IF ParserExpect(x, "StartTag", name) # ""
    THEN Outcome(x, e, ParserExpect(x, "StartTag", name), 0, 0)
    ELSE IF init = "fail" THEN Outcome(x, e, "init", 1, 0)
    ELSE ParsingLoop(d, x, e, name, yld, IF init = "nil" THEN 0 ELSE 1, <<>>)

\* what one turn of the sequence of MakeChildrenSeq leaves once the caller's
\* loop body has run on the child at x: the body skips the child, reads its
\* text, consumes nothing, or breaks out of the loop
SeqBody(d, x, e, body) ==
    IF body = "break"
    THEN [p |-> x, err |-> e, hang |-> FALSE, done |-> TRUE, seen |-> <<x.pos>>,
          wrapped |-> FALSE]
    ELSE IF body = "skip"
    THEN [p |-> ParserSkip(d, x, e).p, err |-> ParserSkip(d, x, e).err,
          hang |-> ParserSkip(d, x, e).hang, done |-> FALSE, seen |-> <<x.pos>>,
          wrapped |-> FALSE]
    ELSE IF body = "text"
    THEN [p |-> ParserText(d, x, e).p, err |-> ParserText(d, x, e).err,
          hang |-> FALSE, done |-> FALSE, seen |-> <<x.pos>>,
          wrapped |-> FALSE]
    ELSE [p |-> x, err |-> e, hang |-> FALSE, done |-> FALSE, seen |-> <<x.pos>>,
          wrapped |-> FALSE]

\* one turn of the for loop of the sequence, r being what Next returned
SeqTurnMutant(d, e, name, body, r) ==
    IF r.ret # "" /\ r.ret # e
    THEN [p |-> r.p, err |-> "next child: " \o r.ret, hang |-> FALSE, done |-> TRUE,
          seen |-> <<>>, wrapped |-> TRUE]
    ELSE IF r.ret = "" /\ r.p.ev = "EndTag"
    THEN [p |-> r.p, err |-> IF e = "" THEN ParserExpect(r.p, "EndTag", name) ELSE e,
          hang |-> FALSE, done |-> TRUE, seen |-> <<>>, wrapped |-> FALSE]
    ELSE SeqBody(d, r.p, e, body)

SeqTurn(d, e, name, body, r) ==
    IF r.ret # ""
    THEN [p |-> r.p, err |-> "next child: " \o r.ret, hang |-> FALSE, done |-> TRUE,
          seen |-> <<>>, wrapped |-> TRUE]
    ELSE IF r.p.ev = "EndTag"
    THEN [p |-> r.p, err |-> IF e = "" THEN ParserExpect(r.p, "EndTag", name) ELSE e,
          hang |-> FALSE, done |-> TRUE, seen |-> <<>>, wrapped |-> FALSE]
    ELSE SeqBody(d, r.p, e, body)

\* the documents the cursor is driven over:
\* <a><b/></a>, <a> t </a>, <a><b>t</b><b><c/></b></a>, <a><b><c/></b><b/></a>,
\* <a><b> cut short
CursorDocs ==
    { <<STag("a", "", <<>>), STag("b", "", <<>>), ETag("b", ""), ETag("a", "")>>,
      <<STag("a", "", <<>>), STag("b", "", <<>>), STag("c", "", <<>>), ETag("c", ""),
        ETag("b", ""), STag("b", "", <<>>), ETag("b", ""), ETag("a", "")>>,
      <<STag("a", "", <<>>), Txt(<<" ", "t", " ">>), ETag("a", "")>>,
      <<STag("a", "", <<>>), STag("b", "", <<>>), Txt(<<"t">>), ETag("b", ""),
        STag("b", "", <<>>), STag("c", "", <<>>), ETag("c", ""), ETag("b", ""),
        ETag("a", "")>>,
      <<STag("a", "", <<>>), STag("b", "", <<>>), XErr>> }

\* the element names callers pass
CallNames == {"a", "b"}

CursorInit ==
    /\ doc \in CursorDocs /\ xp = NewXp /\ err = ""
    /\ cCall = NoCall /\ cPc = "ready"
    /\ CdataIdle /\ RssIdle /\ DetectIdle /\ ParseIdle /\ FnIdle

Called(op, r) ==
    [op |-> op, args |-> NoArgs, errBefore |-> err, xpBefore |-> xp, inits |-> r.inits,
     yields |-> r.yields, at |-> <<>>, ret |-> r.ret, wraps |-> cCall.wraps]

\* a caller calls Parser.Next
CurNext ==
    /\ cPc = "ready"
    /\ LET r == ParserNext(doc, xp, err)
       IN  /\ xp' = r.p
           /\ cCall' = Called("Next", [inits |-> 0, yields |-> 0, ret |-> r.ret])
    /\ UNCHANGED <<doc, err, cPc, exceptCursor>>

\* a grammar calls its nextTag wrapper
CurNextTag ==
    /\ cPc = "ready"
    /\ LET r == nextTag(doc, xp, err)
       IN  /\ xp' = r.p
           /\ cCall' = Called("nextTag", [inits |-> 0, yields |-> 0, ret |-> r.ret])
    /\ UNCHANGED <<doc, err, cPc, exceptCursor>>

\* a caller calls Parser.Text
CurText ==
    /\ cPc = "ready"
    /\ LET r == ParserText(doc, xp, err)
       IN  /\ xp' = r.p
           /\ err' = r.err
           /\ cCall' = Called("Text", [inits |-> 0, yields |-> 0, ret |-> ""])
    /\ UNCHANGED <<doc, cPc, exceptCursor>>

\* a caller calls Parser.Skip
CurSkip ==
    /\ cPc = "ready"
    /\ LET r == ParserSkip(doc, xp, err)
       IN  /\ xp' = r.p
           /\ err' = r.err
           /\ cPc' = IF r.hang THEN "hung" ELSE "ready"
           /\ cCall' = Called("Skip", [inits |-> 0, yields |-> 0, ret |-> ""])
    /\ UNCHANGED <<doc, exceptCursor>>

\* the state after a combinator call
AfterCombinator(op, name, init, yld, r) ==
    /\ xp' = r.p
    /\ err' = r.err
    /\ cPc' = IF r.hang THEN "hung" ELSE "ready"
    /\ cCall' = [Called(op, r) EXCEPT !.args = [name |-> name, init |-> init, yld |-> yld],
                                      !.at = r.at]
    /\ UNCHANGED <<doc, exceptCursor>>

\* a caller calls Parser.WithSkip
CurWithSkip ==
    /\ cPc = "ready"
    /\ \E name \in CallNames, yld \in {"ok", "fail"} :
           AfterCombinator("WithSkip", name, "nil", yld, WithSkip(doc, xp, err, name, yld))

\* a caller calls Parser.WithText
CurWithText ==
    /\ cPc = "ready"
    /\ \E name \in CallNames, init \in {"nil", "ok", "fail"}, yld \in {"ok", "fail"} :
           AfterCombinator("WithText", name, init, yld,
                           WithText(doc, xp, err, name, init, yld))

\* a caller calls Parser.ParsingElement
CurParsingElement ==
    /\ cPc = "ready"
    /\ \E name \in CallNames, init \in {"nil", "ok", "fail"},
          yld \in {"ok", "fail", "skip", "text"} :
           AfterCombinator("ParsingElement", name, init, yld,
                           ParsingElement(doc, xp, err, name, init, yld))

\* how often the sequences may wrap the sticky error into a new one
MaxWraps == 2

\* a caller calls Parser.MakeChildrenSeq and, given a sequence, ranges over it
CurMakeChildrenSeq ==
    /\ cPc = "ready" /\ cCall.wraps < MaxWraps
    /\ \E name \in CallNames :
           /\ cCall' = [Called("MakeChildrenSeq",
                               [inits |-> 0, yields |-> 0,
                                ret |-> ParserExpect(xp, "StartTag", name)])
                           EXCEPT !.args.name = name]
           /\ cPc' = IF ParserExpect(xp, "StartTag", name) # "" THEN "ready" ELSE "iter"
    /\ UNCHANGED <<doc, xp, err, exceptCursor>>

\* the state after one turn of the sequence
AfterTurn(body, t) ==
    /\ xp' = t.p
    /\ err' = t.err
    /\ cPc' = IF t.hang THEN "hung" ELSE IF t.done THEN "ready" ELSE "iter"
    /\ cCall' = [cCall EXCEPT !.at = @ \o t.seen, !.yields = @ + Len(t.seen),
                              !.args.yld = body,
                              !.wraps = IF t.wrapped THEN @ + 1 ELSE @]
    /\ UNCHANGED <<doc, exceptCursor>>

\* the sequence is resumed: Next, then the end of the sequence or the caller's
\* loop body on the child
CurSeqTurn ==
    /\ cPc = "iter"
    /\ \E body \in {"skip", "text", "none", "break"} :
           AfterTurn(body, SeqTurn(doc, err, cCall.args.name, body,
                                   ParserNext(doc, xp, err)))

CursorNext ==
    \/ CurNext \/ CurNextTag \/ CurText \/ CurSkip
    \/ CurWithSkip \/ CurWithText \/ CurParsingElement
    \/ CurMakeChildrenSeq \/ CurSeqTurn

SpecCursor == CursorInit /\ [][CursorNext]_vars

----------------------------------------------------------------------------
(* Claims about the cursor *)

\* C2: once the sticky error is recorded, every later advance (Parser.Next, the
\* grammars' nextTag) returns that error at once and reads nothing from the
\* event stream.
C2_AdvanceSticky ==
    (cCall.op \in {"Next", "nextTag"} /\ cCall.errBefore # "") =>
        (cCall.ret = cCall.errBefore /\ xp = cCall.xpBefore)

\* Next was called with the sticky error set and tokens still unread
C2_Witness ==
    /\ cCall.op = "Next" /\ cCall.errBefore # ""
    /\ xp.pos < Len(doc) /\ doc[xp.pos + 1].k # "Error"

\* C3: after the sticky error is recorded, every combinator call
\* (ParsingElement, WithText, WithSkip) returns an error without invoking init
\* or yield and without consuming anything from the event stream.
C3_CombinatorsShortCircuit ==
    (cCall.op \in {"ParsingElement", "WithText", "WithSkip"} /\ cCall.errBefore # "") =>
        /\ cCall.ret # ""
        /\ cCall.inits = 0 /\ cCall.yields = 0
        /\ xp = cCall.xpBefore

----------------------------------------------------------------------------
(* Namespaces and extension capture (internal/shared/extparser.go) *)

ContentNS == "http://purl.org/rss/1.0/modules/content/"

\* a namespace outside the canonical table, declared in the document as x
OtherNS == "http://example.com/x"

\* PrefixForNamespace: the canonical table, else the prefix the document
\* declares, else the namespace itself
PrefixForNamespace(space) ==
    IF space = ContentNS THEN "content"
    ELSE IF space = OtherNS THEN "x"
    ELSE space

\* the map built from an attribute list (a later attribute replaces an earlier
\* one of the same local name), as a set of <<name, value>> pairs
AttrMap(at) ==
    {<<at[i].name, at[i].value>> :
        i \in {i \in 1..Len(at) : \A j \in (i + 1)..Len(at) : at[j].name # at[i].name}}

\* ext.Extension
ExtNode(name, attrs, value, children) ==
    [name |-> name, attrs |-> attrs, value |-> value, children |-> children]

customKey == "_custom"

\* ext.Extensions, map[prefix]map[name][]Extension, as a function on the
\* <<prefix, name>> pairs; a missing key holds the empty list
ExtKeys == {customKey, "x"} \X {"foo", "bar", "encoded", "b"}

EmptyExt == [k \in ExtKeys |-> <<>>]

\* parseExtensionElement with its for loop and its recursion into child
\* elements: st holds, innermost last, the elements entered and not yet left,
\* each with its locals e, text1 and text2; children are kept in document
\* order.  err = "hang" stands for the loop that never ends (EndDocument is
\* delivered again on every read).
RECURSIVE ExtensionLoop(_, _, _)
ExtensionLoop(d, x, st) ==
    LET r   == xppNext(d, x)
        top == st[Len(st)]
    IN  IF r.err # "" THEN [p |-> r.p, err |-> "shared: " \o r.err, node |-> top.e]
        ELSE IF r.p.ev = "EndTag"
             THEN LET value == IF top.text2 = <<>> THEN TrimSpace(top.text1)
                               ELSE TrimSpace(top.text2)
                      node  == [top.e EXCEPT !.value = value]
                  IN  IF xppExpect(r.p, "EndTag", top.e.name) # ""
                      THEN [p |-> r.p, err |-> "shared: expect", node |-> node]
                      ELSE IF Len(st) = 1 THEN [p |-> r.p, err |-> "", node |-> node]
                      ELSE LET up == st[Len(st) - 1]
                           IN  ExtensionLoop(d, r.p,
                                   [SubSeq(st, 1, Len(st) - 1) EXCEPT ![Len(st) - 1] =
                                       [up EXCEPT !.e.children = Append(@, node)]])
        ELSE IF r.p.ev = "StartTag"
             THEN ExtensionLoop(d, r.p,
                      Append(st, [e |-> ExtNode(r.p.name, AttrMap(r.p.attrs), <<>>, <<>>),
                                  text1 |-> <<>>, text2 |-> <<>>]))
        ELSE IF r.p.ev # "Text" THEN [p |-> r.p, err |-> "hang", node |-> top.e]
        ELSE IF top.text1 = <<>>
             THEN ExtensionLoop(d, r.p, [st EXCEPT ![Len(st)].text1 = r.p.text])
        ELSE IF top.text2 = <<>>
             THEN ExtensionLoop(d, r.p, [st EXCEPT ![Len(st)].text2 = top.text1 \o r.p.text])
        ELSE ExtensionLoop(d, r.p, [st EXCEPT ![Len(st)].text2 = @ \o r.p.text])

parseExtensionElement(d, x) ==
    IF xppExpect(x, "StartTag", "*") # ""
    THEN [p |-> x, err |-> "shared: expect", node |-> ExtNode("", {}, <<>>, <<>>)]
    ELSE ExtensionLoop(d, x, <<[e |-> ExtNode(x.name, AttrMap(x.attrs), <<>>, <<>>),
                                text1 |-> <<>>, text2 |-> <<>>]>>)

\* ParseExtension once parseExtensionElement has returned r: the element is
\* appended to the list of its prefix and name; nil is returned on error
AddExtensionMutant(fe, prefix, r) ==
    IF r.err # ""
    THEN [p |-> r.p, err |-> r.err, hang |-> r.err = "hang", ext |-> EmptyExt]
    ELSE [p |-> r.p, err |-> "", hang |-> FALSE,
          ext |-> [fe EXCEPT ![<<prefix, r.p.name>>] =
                      IF \E i \in 1..Len(@) : @[i] = r.node THEN @ ELSE Append(@, r.node)]]

AddExtension(fe, prefix, r) ==
    IF r.err # ""
    THEN [p |-> r.p, err |-> r.err, hang |-> r.err = "hang", ext |-> EmptyExt]
    ELSE [p |-> r.p, err |-> "", hang |-> FALSE,
          ext |-> [fe EXCEPT ![<<prefix, r.p.name>>] = Append(@, r.node)]]

ParseExtension(d, x, fe) ==
    AddExtension(fe, PrefixForNamespace(x.space), parseExtensionElement(d, x))

\* shared.ParseText: the text of the current element, trimmed.  The function is
\* not part of the sources at hand; it is taken as the cursor's text(): Text
\* content up to the end tag of the current element, which holds no nested
\* markup.
ParseText(d, x) ==
    LET r == NextText(d, x)
    IN  [p |-> r.p, err |-> IF r.err # "" THEN "text: " \o r.err ELSE "",
         v |-> IF r.err # "" THEN <<>> ELSE TrimSpace(r.v)]

----------------------------------------------------------------------------
(* The RSS grammar (rss.Parser): Parse, parseRoot, parseChannel, parseItem. *)
(* Each loop iteration is one step; the handlers of leaf elements are       *)
(* operators on the pull parser x and rp.err e.                             *)

\* a nil *Enclosure and a nil *Cloud
NilAttrs == [nil |-> TRUE, attrs |-> {}]

\* the struct parseEnclosure and parseCloud fill from the attributes whose
\* local name is one of names, as the set of <<name, value>> pairs
AttrsOf(at, names) == [nil |-> FALSE, attrs |-> {a \in AttrMap(at) : a[1] \in names}]

EnclosureAttrs == {"url", "length", "type"}

CloudAttrs == {"domain", "port", "path", "registerProcedure", "protocol"}

NewItem == [title |-> <<>>, content |-> <<>>, ext |-> EmptyExt, enclosure |-> NilAttrs]

NewFeed == [nil |-> FALSE, title |-> <<>>, items |-> <<>>, ext |-> EmptyExt, cloud |-> NilAttrs]

\* a nil *Feed
NilChannel == [nil |-> TRUE, title |-> <<>>, items |-> <<>>, ext |-> EmptyExt, cloud |-> NilAttrs]

\* the element names parseChannel and parseItem dispatch on
ChannelTags ==
    {"title", "description", "link", "language", "copyright", "managingeditor",
     "webmaster", "pubdate", "lastbuilddate", "generator", "docs", "ttl",
     "rating", "skiphours", "skipdays", "item", "cloud", "category", "image",
     "textinput", "items"}

ItemTags ==
    {"title", "description", "encoded", "link", "author", "comments", "pubdate",
     "source", "enclosure", "guid", "category"}

\* the prefixes parseChannelExt and parseItemExt leave to the grammar
NativePrefixes == {"", "rss", "rdf", "content"}

\* shared.IsExtension (not part of the sources at hand): the element's prefix
\* is not grammar-owned
IsExtension(x) == PrefixForNamespace(x.space) \notin NativePrefixes

\* Parser.expect
rssExpect(x, event, name) ==
    IF xppExpect(x, event, name) # "" THEN "rss: expect " \o name ELSE ""

\* Parser.expectRssRdf
expectRssRdf(x, event) ==
    IF rssExpect(x, event, "rss") # "" /\ rssExpect(x, event, "rdf") # ""
    THEN "rss: expect rss or rdf" ELSE ""

\* Parser.text: on failure the error is recorded and "" returned
rssText(d, x, e) == [ParseText(d, x) EXCEPT !.err = IF @ # "" THEN @ ELSE e]

\* Parser.parseCustomExtInto once text() has returned t: extensions is left
\* as it was when text failed, else custom is appended under its name
AddCustomMutant(extensions, custom, t) ==
    IF t.err # "" THEN [p |-> t.p, err |-> t.err, hang |-> FALSE, ext |-> extensions]
    ELSE [p |-> t.p, err |-> t.err, hang |-> FALSE,
          ext |-> [extensions EXCEPT ![<<customKey, t.p.name>>] =
                       <<[custom EXCEPT !.value = t.v]>>]]

AddCustom(extensions, custom, t) ==
    IF t.err # "" THEN [p |-> t.p, err |-> t.err, hang |-> FALSE, ext |-> extensions]
    ELSE [p |-> t.p, err |-> t.err, hang |-> FALSE,
          ext |-> [extensions EXCEPT ![<<customKey, t.p.name>>] =
                       Append(@, [custom EXCEPT !.value = t.v])]]

\* Parser.parseCustomExtInto
parseCustomExtInto(d, x, e, extensions) ==
    AddCustom(extensions, ExtNode(x.name, AttrMap(x.attrs), <<>>, <<>>), rssText(d, x, e))

\* Parser.extensions: rp.err is set when ParseExtension fails
rssExtensions(d, x, e, extensions) ==
    [ParseExtension(d, x, extensions) EXCEPT !.err = IF @ # "" THEN @ ELSE e]

\* the assignments of the parse loops: rec.Extensions = r, rec.Title = t,
\* item.Content = t, and no assignment
SetExt(rec, r) == [p |-> r.p, err |-> r.err, hang |-> r.hang, rec |-> [rec EXCEPT !.ext = r.ext]]

SetTitle(rec, t) == [p |-> t.p, err |-> t.err, hang |-> FALSE, rec |-> [rec EXCEPT !.title = t.v]]

SetContent(rec, t) == [p |-> t.p, err |-> t.err, hang |-> FALSE, rec |-> [rec EXCEPT !.content = t.v]]

SetNothing(rec, x, e) == [p |-> x, err |-> e, hang |-> FALSE, rec |-> rec]

\* the body of the parseItem loop on a StartTag: parseItemExt, then the switch
\* on the lower-cased name (title and encoded of the recognised names)
ItemChildMutant(d, x, e, item) ==
    IF ToLower(x.name) = "encoded" THEN SetContent(item, rssText(d, x, e))
    ELSE SetExt(item, parseCustomExtInto(d, x, e, item.ext))

ItemChild(d, x, e, item) ==
    IF PrefixForNamespace(x.space) \notin NativePrefixes
    THEN SetExt(item, rssExtensions(d, x, e, item.ext))
    ELSE IF ToLower(x.name) = "title" THEN SetTitle(item, rssText(d, x, e))
    ELSE IF ToLower(x.name) = "encoded"
    THEN IF PrefixForNamespace(x.space) = "content"
         THEN SetContent(item, rssText(d, x, e))
         ELSE SetNothing(item, x, e)
    ELSE SetExt(item, parseCustomExtInto(d, x, e, item.ext))

\* Parser.parseCloud once nextTag has returned t (its error is ignored), and
\* Parser.cloud: a failure is recorded in rp.err and the cloud is nil
CloudRead(x, e, t) ==
    IF rssExpect(t.p, "EndTag", "cloud") # ""
    THEN [p |-> t.p, err |-> rssExpect(t.p, "EndTag", "cloud"), v |-> NilAttrs]
    ELSE [p |-> t.p, err |-> e, v |-> AttrsOf(x.attrs, CloudAttrs)]

parseCloud(d, x, e) ==
    IF rssExpect(x, "StartTag", "cloud") # ""
    THEN [p |-> x, err |-> rssExpect(x, "StartTag", "cloud"), v |-> NilAttrs]
    ELSE CloudRead(x, e, nextTag(d, x, e))

SetCloud(rec, c) == [p |-> c.p, err |-> c.err, hang |-> FALSE, rec |-> [rec EXCEPT !.cloud = c.v]]

\* the body of the parseChannel loop on a StartTag other than item:
\* parseChannelExt, then the switch (title and cloud of the recognised names)
ChannelChild(d, x, e, rss) ==
    IF PrefixForNamespace(x.space) \notin NativePrefixes
    THEN SetExt(rss, rssExtensions(d, x, e, rss.ext))
    ELSE IF ToLower(x.name) = "title" THEN SetTitle(rss, rssText(d, x, e))
    ELSE IF ToLower(x.name) = "cloud" THEN SetCloud(rss, parseCloud(d, x, e))
    ELSE SetExt(rss, parseCustomExtInto(d, x, e, rss.ext))

\* the end of parseRoot: the channel, or a new Feed, with the root's items
RootFeed(root) ==
    LET channel == IF root.channel.nil THEN NewFeed ELSE root.channel
    IN  [channel EXCEPT !.items = @ \o root.items]

Top(st) == st[Len(st)]

Pop(st) == SubSeq(st, 1, Len(st) - 1)

----------------------------------------------------------------------------
(* The Atom grammar (atom.Parser): the parts that read text and capture     *)
(* unrecognised elements.                                                   *)

\* the element names parseRoot and parseEntry of atom.Parser dispatch on
AtomFeedTags ==
    {"title", "id", "updated", "modified", "subtitle", "tagline", "link",
     "generator", "icon", "logo", "rights", "copyright", "contributor", "author",
     "category", "entry"}

AtomEntryTags ==
    {"title", "id", "rights", "copyright", "summary", "source", "updated",
     "modified", "contributor", "author", "category", "link", "published",
     "issued", "content"}

\* atom Parser.expect
atomExpect(x, event, name) ==
    IF xppExpect(x, event, name) # "" THEN "atom: expect " \o name ELSE ""

\* atom Parser.nextTag
atomNextTag(d, x, e) == IF e # "" THEN [p |-> x, ret |-> e] ELSE NextLoop(d, x)

\* atom Parser.text over parseAtomText, for an element without type or mode
\* attribute that holds no URI
atomText(d, x, e) == [ParseText(d, x) EXCEPT !.err = IF @ # "" THEN "atom: " \o @ ELSE e]

\* atom Parser.parseCustomExtInto when ParseText has failed: the result of
\* Skip is dropped, nothing is captured and no error is recorded; a Skip that
\* never returns is reported as hang
SkipCustom(e, extensions, k) ==
    [p |-> k.p, err |-> e, hang |-> k.err = "hang", ext |-> extensions]

\* atom Parser.parseCustomExtInto once ParseText has returned t
AtomAddCustom(d, e, extensions, custom, t) ==
    IF t.err # "" THEN SkipCustom(e, extensions, xppSkip(d, t.p))
    ELSE [p |-> t.p, err |-> e, hang |-> FALSE,
          ext |-> [extensions EXCEPT ![<<customKey, t.p.name>>] =
                       Append(@, [custom EXCEPT !.value = t.v])]]

\* atom Parser.parseCustomExtInto
atomCustomExtInto(d, x, e, extensions) ==
    AtomAddCustom(d, e, extensions, ExtNode(x.name, AttrMap(x.attrs), <<>>, <<>>),
                  ParseText(d, x))

\* the switch of the parseRoot and parseEntry loops of atom.Parser on a
\* native StartTag other than entry (title of the recognised names)
AtomChild(d, x, e, atom) ==
    IF ToLower(x.name) = "title" THEN SetTitle(atom, atomText(d, x, e))
    ELSE SetExt(atom, atomCustomExtInto(d, x, e, atom.ext))

----------------
(* The documents the grammars are run on *)

Wrap(name, space, attrs, body) == <<STag(name, space, attrs)>> \o body \o <<ETag(name, space)>>

RECURSIVE Flatten(_)
Flatten(ss) == IF ss = <<>> THEN <<>> ELSE Head(ss) \o Flatten(Tail(ss))

\* <title>t</title>
KidTitle == Wrap("title", "", <<>>, <<Txt(<<"t">>)>>)

\* <title><b/></title>: a text element that holds markup
KidTitleNested == Wrap("title", "", <<>>, Wrap("b", "", <<>>, <<>>))

\* <foo bar="1"> x </foo>
KidFooA == Wrap("foo", "", <<[name |-> "bar", value |-> "1"]>>, <<Txt(<<" ", "x", " ">>)>>)

\* <foo>y</foo>
KidFooB == Wrap("foo", "", <<>>, <<Txt(<<"y">>)>>)

\* <foo><b/></foo>: an unrecognised element with a child element
KidFooNested == Wrap("foo", "", <<>>, Wrap("b", "", <<>>, <<>>))

\* <content:encoded> c </content:encoded>
KidContentEncoded == Wrap("encoded", ContentNS, <<>>, <<Txt(<<"c", " ">>)>>)

\* <encoded>d</encoded> in no namespace
KidPlainEncoded == Wrap("encoded", "", <<>>, <<Txt(<<"d">>)>>)

\* <x:encoded>e</x:encoded>
KidOtherEncoded == Wrap("encoded", OtherNS, <<>>, <<Txt(<<"e">>)>>)

\* input the XML decoder rejects
KidBroken == <<XErr>>

UrlAttr == <<[name |-> "url", value |-> "u"], [name |-> "rel", value |-> "r"]>>

\* <enclosure url="u" rel="r"/>
KidEnclosure == Wrap("enclosure", "", UrlAttr, <<>>)

\* <Enclosure url="u" rel="r"/>
KidEnclosureUpper == Wrap("Enclosure", "", UrlAttr, <<>>)

\* <enclosure url="u" rel="r"><b/></enclosure>
KidEnclosureNested == Wrap("enclosure", "", UrlAttr, Wrap("b", "", <<>>, <<>>))

DomainAttr == <<[name |-> "domain", value |-> "d"], [name |-> "rel", value |-> "r"]>>

\* <cloud domain="d" rel="r"/>
KidCloud == Wrap("cloud", "", DomainAttr, <<>>)

\* <cloud domain="d" rel="r"><b/></cloud>
KidCloudNested == Wrap("cloud", "", DomainAttr, Wrap("b", "", <<>>, <<>>))

CloudKids == {KidTitle, KidCloud, KidCloudNested}

EnclosureKids == {KidTitle, KidEnclosure, KidEnclosureUpper, KidEnclosureNested, KidBroken}

ChannelKids == {KidTitle, KidTitleNested, KidFooA, KidFooB, KidFooNested, KidBroken}

ItemKids ==
    {KidTitle, KidFooA, KidFooB, KidFooNested, KidContentEncoded, KidPlainEncoded,
     KidOtherEncoded}

MaxKids == 2

\* at most one item or entry, with up to n children
ItemElements(name, n) ==
    {<<>>} \cup {Wrap(name, "", <<>>, Flatten(ik)) : ik \in SeqsUpTo(ItemKids, n)}

\* the lengths of the two child lists of a document: one of them is at most 1
KidBounds == {<<MaxKids, 1>>, <<1, MaxKids>>}

\* <rss><channel> kids item? </channel></rss>, and <RDF><channel> kids
\* </channel> item? </RDF> with the item a child of the root
RssDocs ==
    UNION {{Wrap("rss", "", <<>>, Wrap("channel", "", <<>>, Flatten(ck) \o it)) :
                ck \in SeqsUpTo(ChannelKids, b[1]), it \in ItemElements("item", b[2])} :
           b \in KidBounds}
    \cup
    {Wrap("RDF", "", <<>>, Wrap("channel", "", <<>>, Flatten(ck)) \o it) :
        ck \in SeqsUpTo(ChannelKids, 1), it \in ItemElements("item", 1)}

\* <rss><channel> kid? <item> kids </item></channel></rss> with a cloud in the
\* channel and enclosures in the item
EnclosureDocs ==
    {Wrap("rss", "", <<>>, Wrap("channel", "", <<>>,
          Flatten(ck) \o Wrap("item", "", <<>>, Flatten(ik)))) :
        ck \in SeqsUpTo(CloudKids, 1), ik \in SeqsUpTo(EnclosureKids, MaxKids)}

\* <feed> kids entry? </feed>
AtomDocs ==
    UNION {{Wrap("feed", "", <<>>, Flatten(fk) \o it) :
                fk \in SeqsUpTo(ChannelKids \cup {KidOtherEncoded}, b[1]),
                it \in ItemElements("entry", b[2])} :
           b \in KidBounds}

\* documents without a root, and with a root of neither grammar
OddDocs == {<<>>, <<Cmt, XErr>>, <<Cmt>> \o Wrap("html", "", <<>>, <<>>)}

----------------------------------------------------------------------------
(* Parse of rss.Parser and atom.Parser, one loop iteration per step *)

NoResult == [feed |-> NilChannel, err |-> ""]

RssInit ==
    /\ \/ rFmt = "rss" /\ doc \in RssDocs \cup EnclosureDocs \cup OddDocs
       \/ rFmt = "atom" /\ doc \in AtomDocs \cup OddDocs
    /\ rSkipUnknown \in BOOLEAN
    /\ xp = NewXp /\ err = ""
    /\ rPc = "start" /\ rStack = <<>>
    /\ rRoot = [channel |-> NilChannel, items |-> <<>>]
    /\ rChan = NilChannel /\ rItem = NewItem /\ rOut = NoResult
    /\ CdataIdle /\ CursorIdle /\ DetectIdle /\ ParseIdle /\ FnIdle

\* Parse returns feed and e
Return(p, feed, e) ==
    /\ xp' = p
    /\ rOut' = [feed |-> feed, err |-> e]
    /\ rPc' = "done"
    /\ UNCHANGED <<err, rStack, rRoot, rChan, rItem>>

\* a call to Skip that may never return
SkipElement ==
    LET k == xppSkip(doc, xp)
    IN  /\ xp' = k.p
        /\ rPc' = IF k.err = "hang" THEN "hang" ELSE rPc
        /\ UNCHANGED <<err, rStack, rRoot, rChan, rItem, rOut>>

\* the handler of a child of the channel or feed has returned c
FeedHandled(c) ==
    /\ xp' = c.p
    /\ err' = IF c.hang THEN err ELSE c.err
    /\ rChan' = c.rec
    /\ rPc' = IF c.hang THEN "hang" ELSE rPc
    /\ UNCHANGED <<rStack, rRoot, rItem, rOut>>

\* the handler of a child of the item or entry has returned c
ItemHandled(c) ==
    /\ xp' = c.p
    /\ err' = IF c.hang THEN err ELSE c.err
    /\ rItem' = c.rec
    /\ rPc' = IF c.hang THEN "hang" ELSE rPc
    /\ UNCHANGED <<rStack, rRoot, rChan, rOut>>

\* rss Parser.Parse up to the loop of parseRoot
RssStart ==
    /\ rPc = "start" /\ rFmt = "rss"
    /\ LET r == FindRoot(doc, xp)
       IN  IF r.err # "" THEN Return(r.p, NilChannel, r.err)
           ELSE IF expectRssRdf(r.p, "StartTag") # ""
           THEN Return(r.p, NilChannel, expectRssRdf(r.p, "StartTag"))
           ELSE /\ xp' = r.p
                /\ rPc' = "run"
                /\ rStack' = <<"root">>
                /\ UNCHANGED <<err, rRoot, rChan, rItem, rOut>>
    /\ UNCHANGED <<doc, rFmt, rSkipUnknown, exceptRss>>

\* one iteration of the loop of parseRoot, and what follows the loop
RssRootStep ==
    /\ rPc = "run" /\ rFmt = "rss" /\ Top(rStack) = "root"
    /\ LET t == nextTag(doc, xp, err)
       IN  IF t.ret # "" THEN Return(t.p, NilChannel, t.ret)
           ELSE IF t.p.ev = "EndTag"
           THEN IF expectRssRdf(t.p, "EndTag") # ""
                THEN Return(t.p, NilChannel, expectRssRdf(t.p, "EndTag"))
                ELSE Return(t.p, RootFeed(rRoot), "")
           ELSE IF IsExtension(t.p) THEN SkipElement
           ELSE IF ToLower(t.p.name) = "channel"
           THEN /\ xp' = t.p
                /\ rStack' = Append(rStack, "channel")
                /\ rChan' = NewFeed
                /\ UNCHANGED <<err, rPc, rRoot, rItem, rOut>>
           ELSE IF ToLower(t.p.name) = "item"
           THEN /\ xp' = t.p
                /\ rStack' = Append(rStack, "item")
                /\ rItem' = NewItem
                /\ UNCHANGED <<err, rPc, rRoot, rChan, rOut>>
           ELSE SkipElement
    /\ UNCHANGED <<doc, rFmt, rSkipUnknown, exceptRss>>

\* Parser.channel when parseChannel returns e: rp.err is set, channel is nil
ChannelFails(p, e) ==
    /\ xp' = p
    /\ err' = e
    /\ rStack' = Pop(rStack)
    /\ rRoot' = [rRoot EXCEPT !.channel = NilChannel]
    /\ UNCHANGED <<rPc, rChan, rItem, rOut>>

\* one iteration of the loop of parseChannel, and what follows the loop
RssChannelStep ==
    /\ rPc = "run" /\ rFmt = "rss" /\ Top(rStack) = "channel"
    /\ LET t == nextTag(doc, xp, err)
       IN  IF t.ret # "" THEN ChannelFails(t.p, t.ret)
           ELSE IF t.p.ev = "EndTag"
           THEN IF rssExpect(t.p, "EndTag", "channel") # ""
                THEN ChannelFails(t.p, rssExpect(t.p, "EndTag", "channel"))
                ELSE /\ xp' = t.p
                     /\ rStack' = Pop(rStack)
                     /\ rRoot' = [rRoot EXCEPT !.channel = rChan]
                     /\ UNCHANGED <<err, rPc, rChan, rItem, rOut>>
           ELSE IF PrefixForNamespace(t.p.space) \in NativePrefixes /\ ToLower(t.p.name) = "item"
           THEN /\ xp' = t.p
                /\ rStack' = Append(rStack, "item")
                /\ rItem' = NewItem
                /\ UNCHANGED <<err, rPc, rRoot, rChan, rOut>>
           ELSE FeedHandled(ChannelChild(doc, t.p, err, rChan))
    /\ UNCHANGED <<doc, rFmt, rSkipUnknown, exceptRss>>

\* Parser.appendItem when parseItem returns e: rp.err is set, items is kept
ItemFails(p, e) ==
    /\ xp' = p
    /\ err' = e
    /\ rStack' = Pop(rStack)
    /\ UNCHANGED <<rPc, rRoot, rChan, rItem, rOut>>

\* Parser.enclosure when parseEnclosure returns e: rp.err is set and
\* item.Enclosure is nil
EnclosureFails(p, e) ==
    /\ xp' = p
    /\ err' = e
    /\ rStack' = IF Top(rStack) = "enclosure" THEN Pop(rStack) ELSE rStack
    /\ rItem' = [rItem EXCEPT !.enclosure = NilAttrs]
    /\ UNCHANGED <<rPc, rRoot, rChan, rOut>>

\* one iteration of the loop of parseItem, and what follows the loop
RssItemStep ==
    /\ rPc = "run" /\ rFmt = "rss" /\ Top(rStack) = "item"
    /\ LET t == nextTag(doc, xp, err)
       IN  IF t.ret # "" THEN ItemFails(t.p, t.ret)
           ELSE IF t.p.ev = "EndTag"
           THEN IF rssExpect(t.p, "EndTag", "item") # ""
                THEN ItemFails(t.p, rssExpect(t.p, "EndTag", "item"))
                ELSE /\ xp' = t.p
                     /\ rStack' = Pop(rStack)
                     /\ IF Top(Pop(rStack)) = "channel"
                        THEN /\ rChan' = [rChan EXCEPT !.items = Append(@, rItem)]
                             /\ UNCHANGED rRoot
                        ELSE /\ rRoot' = [rRoot EXCEPT !.items = Append(@, rItem)]
                             /\ UNCHANGED rChan
                     /\ UNCHANGED <<err, rPc, rItem, rOut>>
           ELSE IF PrefixForNamespace(t.p.space) \in NativePrefixes
                   /\ ToLower(t.p.name) = "enclosure"
           THEN IF rssExpect(t.p, "StartTag", "enclosure") # ""
                THEN EnclosureFails(t.p, rssExpect(t.p, "StartTag", "enclosure"))
                ELSE /\ xp' = t.p
                     /\ rStack' = Append(rStack, "enclosure")
                     /\ rItem' = [rItem EXCEPT !.enclosure = AttrsOf(t.p.attrs, EnclosureAttrs)]
                     /\ UNCHANGED <<err, rPc, rRoot, rChan, rOut>>
           ELSE ItemHandled(ItemChild(doc, t.p, err, rItem))
    /\ UNCHANGED <<doc, rFmt, rSkipUnknown, exceptRss>>

\* one iteration of the loop of parseEnclosure that discards the element's
\* content; rItem.enclosure holds the enclosure the call is to return
RssEnclosureStep ==
    /\ rPc = "run" /\ rFmt = "rss" /\ Top(rStack) = "enclosure"
    /\ LET r == xppNext(doc, xp)
       IN  IF r.err # "" THEN EnclosureFails(r.p, "rss: " \o r.err)
           ELSE IF r.p.ev = "EndTag" /\ r.p.name = "enclosure"
           THEN /\ xp' = r.p
                /\ rStack' = Pop(rStack)
                /\ UNCHANGED <<err, rPc, rRoot, rChan, rItem, rOut>>
           ELSE /\ xp' = r.p
                /\ UNCHANGED <<err, rPc, rStack, rRoot, rChan, rItem, rOut>>
    /\ UNCHANGED <<doc, rFmt, rSkipUnknown, exceptRss>>

\* atom parseRoot: ParseExtension has returned r; an error ends the parse
FeedExtended(r) ==
    IF r.hang
    THEN /\ xp' = r.p /\ rPc' = "hang" /\ UNCHANGED <<err, rStack, rRoot, rChan, rItem, rOut>>
    ELSE IF r.err # "" THEN Return(r.p, NilChannel, r.err)
    ELSE /\ xp' = r.p
         /\ rChan' = [rChan EXCEPT !.ext = r.ext]
         /\ UNCHANGED <<err, rPc, rStack, rRoot, rItem, rOut>>

\* atom parseEntry: ParseExtension has returned r; an error ends parseEntry
EntryExtended(r) ==
    IF r.hang
    THEN /\ xp' = r.p /\ rPc' = "hang" /\ UNCHANGED <<err, rStack, rRoot, rChan, rItem, rOut>>
    ELSE IF r.err # "" THEN ItemFails(r.p, r.err)
    ELSE /\ xp' = r.p
         /\ rItem' = [rItem EXCEPT !.ext = r.ext]
         /\ UNCHANGED <<err, rPc, rStack, rRoot, rChan, rOut>>

\* atom Parser.Parse up to the loop of parseRoot
AtomStart ==
    /\ rPc = "start" /\ rFmt = "atom"
    /\ LET r == FindRoot(doc, xp)
       IN  IF r.err # "" THEN Return(r.p, NilChannel, r.err)
           ELSE IF atomExpect(r.p, "StartTag", "feed") # ""
           THEN Return(r.p, NilChannel, atomExpect(r.p, "StartTag", "feed"))
           ELSE /\ xp' = r.p
                /\ rPc' = "run"
                /\ rStack' = <<"feed">>
                /\ rChan' = NewFeed
                /\ UNCHANGED <<err, rRoot, rItem, rOut>>
    /\ UNCHANGED <<doc, rFmt, rSkipUnknown, exceptRss>>

\* one iteration of the loop of atom parseRoot, and what follows the loop
AtomFeedStep ==
    /\ rPc = "run" /\ rFmt = "atom" /\ Top(rStack) = "feed"
    /\ LET t == atomNextTag(doc, xp, err)
       IN  IF t.ret # "" THEN Return(t.p, NilChannel, t.ret)
           ELSE IF t.p.ev = "EndTag"
           THEN IF atomExpect(t.p, "EndTag", "feed") # ""
                THEN Return(t.p, NilChannel, atomExpect(t.p, "EndTag", "feed"))
                ELSE Return(t.p, rChan, "")
           ELSE IF IsExtension(t.p)
           THEN FeedExtended(ParseExtension(doc, t.p, rChan.ext))
           ELSE IF ToLower(t.p.name) = "entry"
           THEN /\ xp' = t.p
                /\ rStack' = Append(rStack, "entry")
                /\ rItem' = NewItem
                /\ UNCHANGED <<err, rPc, rRoot, rChan, rOut>>
           ELSE FeedHandled(AtomChild(doc, t.p, err, rChan))
    /\ UNCHANGED <<doc, rFmt, rSkipUnknown, exceptRss>>

\* one iteration of the loop of atom parseEntry, and what follows the loop;
\* appendEntry sets ap.err and keeps entries when parseEntry fails
AtomEntryStep ==
    /\ rPc = "run" /\ rFmt = "atom" /\ Top(rStack) = "entry"
    /\ LET t == atomNextTag(doc, xp, err)
       IN  IF t.ret # "" THEN ItemFails(t.p, t.ret)
           ELSE IF t.p.ev = "EndTag"
           THEN IF atomExpect(t.p, "EndTag", "entry") # ""
                THEN ItemFails(t.p, atomExpect(t.p, "EndTag", "entry"))
                ELSE /\ xp' = t.p
                     /\ rStack' = Pop(rStack)
                     /\ rChan' = [rChan EXCEPT !.items = Append(@, rItem)]
                     /\ UNCHANGED <<err, rPc, rRoot, rItem, rOut>>
           ELSE IF IsExtension(t.p)
           THEN EntryExtended(ParseExtension(doc, t.p, rItem.ext))
           ELSE ItemHandled(AtomChild(doc, t.p, err, rItem))
    /\ UNCHANGED <<doc, rFmt, rSkipUnknown, exceptRss>>

RssNext ==
    \/ RssStart
    \/ RssRootStep
    \/ RssChannelStep
    \/ RssItemStep
    \/ RssEnclosureStep
    \/ AtomStart
    \/ AtomFeedStep
    \/ AtomEntryStep

SpecRss == RssInit /\ [][RssNext]_vars

\* the discard loop of parseEnclosure runs on: an iteration that can change
\* the state is taken in the end
SpecRssLive == RssInit /\ [][RssNext]_vars /\ WF_vars(RssEnclosureStep)

----------------------------------------------------------------------------
(* What a document holds, read off its tokens *)

\* the index of the EndTag that closes the element open at depth 1 from i on
RECURSIVE CloseOf(_, _, _)
CloseOf(d, i, depth) ==
    IF i > Len(d) THEN Len(d) + 1
    ELSE IF d[i].k = "StartTag" THEN CloseOf(d, i + 1, depth + 1)
    ELSE IF d[i].k = "EndTag"
         THEN IF depth = 1 THEN i ELSE CloseOf(d, i + 1, depth - 1)
    ELSE CloseOf(d, i + 1, depth)

MatchEnd(d, i) == CloseOf(d, i + 1, 1)

\* the StartTag indices of the child elements of the element at i, in order
RECURSIVE KidsFrom(_, _, _)
KidsFrom(d, j, end) ==
    IF j >= end THEN <<>>
    ELSE IF d[j].k = "StartTag" THEN <<j>> \o KidsFrom(d, MatchEnd(d, j) + 1, end)
    ELSE KidsFrom(d, j + 1, end)

Children(d, i) == KidsFrom(d, i + 1, MatchEnd(d, i))

\* the character data of the element at i
RECURSIVE TextFrom(_, _, _)
TextFrom(d, j, end) ==
    IF j >= end THEN <<>>
    ELSE (IF d[j].k = "Text" THEN d[j].tx ELSE <<>>) \o TextFrom(d, j + 1, end)

ElemText(d, i) == TextFrom(d, i + 1, MatchEnd(d, i))

\* the index of the root element
RootOf(d) == CHOOSE i \in 1..Len(d) : d[i].k = "StartTag" /\ \A j \in 1..(i - 1) : d[j].k # "StartTag"

IsNative(t) == PrefixForNamespace(t.sp) \in NativePrefixes

RECURSIVE SelectIdx(_, _, _, _)
SelectIdx(d, ks, name, native) ==
    IF ks = <<>> THEN <<>>
    ELSE (IF ToLower(d[Head(ks)].n) = name /\ IsNative(d[Head(ks)]) = native
          THEN <<Head(ks)>> ELSE <<>>) \o SelectIdx(d, Tail(ks), name, native)

\* the native child elements named name of the element at i
Named(d, i, name) == SelectIdx(d, Children(d, i), name, TRUE)

\* the item elements of an RSS document in the order of the returned feed (the
\* channel's, then the root's), the entry elements of an Atom document
ItemsOf(d) ==
    IF rFmt = "atom" THEN Named(d, RootOf(d), "entry")
    ELSE LET ch == Named(d, RootOf(d), "channel")
         IN  (IF ch = <<>> THEN <<>> ELSE Named(d, ch[Len(ch)], "item"))
             \o Named(d, RootOf(d), "item")

\* the element that holds the feed's own children
FeedOf(d) ==
    IF rFmt = "atom" THEN <<RootOf(d)>>
    ELSE LET ch == Named(d, RootOf(d), "channel")
         IN  IF ch = <<>> THEN <<>> ELSE <<ch[Len(ch)]>>

\* the nodes the children named name of the element at i stand for, when the
\* grammar does not recognise them (tags are the names it recognises)
RECURSIVE CustomNodes(_, _, _, _)
CustomNodes(d, ks, tags, name) ==
    IF ks = <<>> THEN <<>>
    ELSE LET t == d[Head(ks)]
         IN  (IF IsNative(t) /\ ToLower(t.n) \notin tags /\ t.n = name
              THEN <<ExtNode(t.n, AttrMap(t.at), TrimSpace(ElemText(d, Head(ks))), <<>>)>>
              ELSE <<>>) \o CustomNodes(d, Tail(ks), tags, name)

CustomNames == {k[2] : k \in ExtKeys}

FeedTags == IF rFmt = "atom" THEN AtomFeedTags ELSE ChannelTags

EntryTags == IF rFmt = "atom" THEN AtomEntryTags ELSE ItemTags

Succeeded == rPc = "done" /\ rOut.err = ""

----------------------------------------------------------------------------
(* Claims about the RSS and Atom grammars *)

\* C1: once an error is recorded in the parser's err field, the parse reads
\* nothing more of the document, keeps that error, does not hang, and returns
\* that very error with no feed.
C1_StickyErrorReturned ==
    /\ [](err # "" => rPc \in {"run", "done"})
    /\ [](rPc = "done" /\ err # "" => rOut.err = err /\ rOut.feed.nil)
    /\ [][err # "" => err' = err /\ xp' = xp]_vars

\* a parse that recorded an error and returned it although a well-formed title
\* element lay unread behind the failing element
C1_Witness ==
    /\ rPc = "done" /\ err # "" /\ rOut.err = err /\ rOut.feed.nil
    /\ \A i \in 1..Len(doc) : doc[i].k # "Error"
    /\ \E i \in (xp.pos + 1)..Len(doc) : doc[i].k = "StartTag" /\ doc[i].n = "title"
                                          /\ doc[i + 1].k = "Text"

\* the children that never make a parse fail if C6 holds: a recognised text
\* element and unrecognised native elements, with text or with a child element
BenignKids == {KidTitle, KidFooA, KidFooB, KidFooNested}

BenignItems(name, n) ==
    {<<>>} \cup {Wrap(name, "", <<>>, Flatten(ik)) : ik \in SeqsUpTo(BenignKids, n)}

BenignDocs ==
    UNION {{Wrap("rss", "", <<>>, Wrap("channel", "", <<>>, Flatten(ck) \o it)) :
                ck \in SeqsUpTo(BenignKids, b[1]), it \in BenignItems("item", b[2])} :
           b \in KidBounds}
    \cup
    UNION {{Wrap("feed", "", <<>>, Flatten(fk) \o it) :
                fk \in SeqsUpTo(BenignKids, b[1]), it \in BenignItems("entry", b[2])} :
           b \in KidBounds}

\* C6: a well-formed document whose elements are all recognised or
\* unrecognised elements of the format's own namespace, some of them holding a
\* child element, parses without error.
C6_UnknownNeverFails ==
    rPc = "done" /\ doc \in BenignDocs => rOut.err = ""

\* the lists under _custom of a feed or item record equal the unrecognised
\* native children of the element at i, name by name
CustomMatches(ext, d, i, tags) ==
    \A n \in CustomNames :
        ext[<<customKey, n>>] = CustomNodes(d, Children(d, i), tags, n)

\* C7: in a returned feed, the _custom bucket of the feed and of every item
\* (entry) holds under each name one node per unrecognised native child of that
\* name, with its attributes and trimmed text, in document order.
C7_CustomCapture ==
    Succeeded =>
        /\ Len(rOut.feed.items) = Len(ItemsOf(doc))
        /\ \A k \in 1..Len(rOut.feed.items) :
               CustomMatches(rOut.feed.items[k].ext, doc, ItemsOf(doc)[k], EntryTags)
        /\ FeedOf(doc) # <<>> => CustomMatches(rOut.feed.ext, doc, FeedOf(doc)[1], FeedTags)

\* an RSS feed returned with two nodes under _custom foo, in document order
C7_Witness ==
    /\ Succeeded /\ rFmt = "rss"
    /\ rOut.feed.ext[<<customKey, "foo">>] =
           <<ExtNode("foo", {<<"bar", "1">>}, <<"x">>, <<>>),
             ExtNode("foo", {}, <<"y">>, <<>>)>>

\* the content an item element stands for: the trimmed text of its last
\* encoded child whose namespace resolves to the prefix content
ExpectedContent(d, i) ==
    LET ks == SelectSeq(Children(d, i),
                  LAMBDA j : ToLower(d[j].n) = "encoded"
                             /\ PrefixForNamespace(d[j].sp) = "content")
    IN  IF ks = <<>> THEN <<>> ELSE TrimSpace(ElemText(d, ks[Len(ks)]))

\* C8: an item's content changes only when an encoded element whose prefix is
\* content has just been read, and every returned RSS item holds the text of
\* its content:encoded child and nothing if it has none.
C8_ContentFromEncoded ==
    /\ [][rFmt = "rss" /\ rItem'.content # rItem.content =>
              \/ rItem' = NewItem
              \/ /\ xp'.ev = "EndTag" /\ ToLower(xp'.name) = "encoded"
                 /\ PrefixForNamespace(xp'.space) = "content"]_vars
    /\ [](Succeeded /\ rFmt = "rss" =>
              \A k \in 1..Len(rOut.feed.items) :
                  k <= Len(ItemsOf(doc)) =>
                      rOut.feed.items[k].content = ExpectedContent(doc, ItemsOf(doc)[k]))

\* a returned item with content from content:encoded and an x:encoded child
\* kept as an extension
C8_Witness ==
    /\ Succeeded /\ rFmt = "rss" /\ Len(rOut.feed.items) = 1
    /\ rOut.feed.items[1].content = <<"c">>
    /\ rOut.feed.items[1].ext[<<"x", "encoded">>] # <<>>

----------------------------------------------------------------------------
(* Date elements: rss Parser.parseDate, atom Parser.parseDate, and           *)
(* parseAtomDateTo of the atom parser that returns errors to its caller     *)

Digits == {"1", "2"}

\* shared.ParseDate succeeds on s: here, a non-empty string of digits
IsDate(s) == s # <<>> /\ \A i \in 1..Len(s) : s[i] \in Digits

\* shared.ParseDate followed by date.UTC(): a pointer to the time read, as a
\* list of one time, or of none for a nil pointer
ParseDate(s) == IF IsDate(s) THEN [err |-> "", date |-> <<[utc |-> s]>>]
                ELSE [err |-> "date", date |-> <<>>]

\* rss Parser.parseDate, atom Parser.parseDate once text() has returned t:
\* the string and the parsed time assigned to the two fields, and the parser's
\* err field
parseDate(t) ==
    IF t.err # "" THEN [str |-> <<>>, parsed |-> <<>>, err |-> t.err, ret |-> ""]
    ELSE [str |-> t.v, parsed |-> ParseDate(t.v).date, err |-> "", ret |-> ""]

\* parseAtomDateTo once parseAtomText has returned t, str and parsed being the
\* fields before the call: the error is returned, and parseRoot returns it
parseAtomDateTo(t, str, parsed) ==
    IF t.err # "" THEN [str |-> str, parsed |-> parsed, err |-> "", ret |-> t.err]
    ELSE IF ParseDate(t.v).err # ""
    THEN [str |-> t.v, parsed |-> parsed, err |-> "", ret |-> ParseDate(t.v).err]
    ELSE [str |-> t.v, parsed |-> ParseDate(t.v).date, err |-> "", ret |-> ""]

MaxText == 2

\* what text() / parseAtomText returns for the date element
DateInputs ==
    {[v |-> v, err |-> ""] : v \in SeqsUpTo(Digits \cup {"x", "-"}, MaxText)}
    \cup {[v |-> <<>>, err |-> "text"]}

DateOps == {"rss.parseDate", "atom.parseDate", "atom.parseAtomDateTo"}

\* rss: rss.PubDate, rss.PubDateParsed = rp.parseDate()
FnRssParseDate ==
    /\ fnPc = "call" /\ fnOp = "rss.parseDate"
    /\ fnOut' = parseDate(fnIn)
    /\ fnPc' = "done"
    /\ UNCHANGED <<fnOp, fnIn, exceptFn>>

\* atom: atom.Updated, atom.UpdatedParsed = ap.parseDate()
FnAtomParseDate ==
    /\ fnPc = "call" /\ fnOp = "atom.parseDate"
    /\ fnOut' = parseDate(fnIn)
    /\ fnPc' = "done"
    /\ UNCHANGED <<fnOp, fnIn, exceptFn>>

\* atom: err := ap.parseAtomDateTo(&atom.Updated, &atom.UpdatedParsed)
FnParseAtomDateTo ==
    /\ fnPc = "call" /\ fnOp = "atom.parseAtomDateTo"
    /\ fnOut' = parseAtomDateTo(fnIn, <<>>, <<>>)
    /\ fnPc' = "done"
    /\ UNCHANGED <<fnOp, fnIn, exceptFn>>

\* C13: when the text of a date element is read but is no date, no error is
\* recorded or returned, the string field holds the text and the parsed field
\* is absent.
C13_DateFailureNonFatal ==
    fnPc = "done" /\ fnOp \in DateOps /\ fnIn.err = "" /\ ~IsDate(fnIn.v) =>
        /\ fnOut.err = "" /\ fnOut.ret = ""
        /\ fnOut.str = fnIn.v /\ fnOut.parsed = <<>>

\* C17: a feed returned by a parse run with the skip-unknown-elements option
\* carries no generic extension entry and no _custom entry, nor does any of
\* its items or entries.
C17_SkipUnknownElements ==
    Succeeded /\ rSkipUnknown =>
        /\ rOut.feed.ext = EmptyExt
        /\ \A k \in 1..Len(rOut.feed.items) : rOut.feed.items[k].ext = EmptyExt

\* the children with text only: a recognised text element, unrecognised native
\* elements, and an encoded element in no namespace
TextKids == {KidTitle, KidFooA, KidFooB}

\* <rss><channel> kids <item> kids </item></channel></rss> where the item has
\* a child <encoded>d</encoded> in no namespace and every other child is one
\* of TextKids
PlainEncodedDocs ==
    {Wrap("rss", "", <<>>, Wrap("channel", "", <<>>,
          Flatten(ck) \o Wrap("item", "", <<>>, Flatten(ik)))) :
        ck \in SeqsUpTo(TextKids, 1),
        ik \in {k \in SeqsUpTo(TextKids \cup {KidPlainEncoded}, MaxKids) :
                   \E j \in 1..Len(k) : k[j] = KidPlainEncoded}}

\* C22: an RSS item with an encoded child whose prefix is grammar-owned but is
\* not "content" (here: no namespace) parses successfully: the parse returns
\* no error and the feed holds the item.
C22_PlainEncodedParses ==
    rPc = "done" /\ rFmt = "rss" /\ doc \in PlainEncodedDocs =>
        rOut.err = "" /\ Len(rOut.feed.items) = 1

\* the parser is inside the discard loop of parseEnclosure
InEnclosure == rPc = "run" /\ rStack # <<>> /\ Top(rStack) = "enclosure"

\* C23: parsing an RSS enclosure always terminates: once the discard loop of
\* parseEnclosure is entered it is left again, at the enclosure's end tag or
\* with an error, also when the element is spelled Enclosure.
C23_EnclosureTerminates == InEnclosure ~> ~InEnclosure

\* <rss><channel> kid? <item> kids </item></channel></rss> where the channel
\* holds a cloud with a child element or the item an enclosure with a child
\* element, and every other child is a title, a cloud or an enclosure in
\* lower case
NestedKids == {KidCloudNested, KidEnclosureNested}

NestedDocs ==
    {Wrap("rss", "", <<>>, Wrap("channel", "", <<>>,
          Flatten(k[1]) \o Wrap("item", "", <<>>, Flatten(k[2])))) :
        k \in {k \in SeqsUpTo(CloudKids, 1)
                        \X SeqsUpTo({KidTitle, KidEnclosure, KidEnclosureNested}, MaxKids) :
                   \/ k[1] = <<KidCloudNested>>
                   \/ \E j \in 1..Len(k[2]) : k[2][j] = KidEnclosureNested}}

\* C28: an RSS cloud or enclosure with nested child elements is parsed without
\* error: the parse succeeds, with the cloud's and the enclosure's attributes
\* captured where the document has the element.
C28_NestedChildrenParse ==
    rPc = "done" /\ rFmt = "rss" /\ doc \in NestedDocs =>
        /\ rOut.err = "" /\ Len(rOut.feed.items) = 1
        /\ (Named(doc, FeedOf(doc)[1], "cloud") # <<>> =>
                rOut.feed.cloud = [nil |-> FALSE, attrs |-> {<<"domain", "d">>}])
        /\ (Named(doc, ItemsOf(doc)[1], "enclosure") # <<>> =>
                rOut.feed.items[1].enclosure = [nil |-> FALSE, attrs |-> {<<"url", "u">>}])

----------------------------------------------------------------------------
(* Claims about the combinators, read against the document *)

\* the last call was the combinator op, its check of the start tag succeeded
\* and the element it was called on is closed in the document
OnElement(op) ==
    /\ cCall.op = op
    /\ ParserExpect(cCall.xpBefore, "StartTag", cCall.args.name) = ""
    /\ MatchEnd(doc, cCall.xpBefore.pos) <= Len(doc)

\* the cursor is on the end tag of the element the call was made on
OnEndTag == xp.pos = MatchEnd(doc, cCall.xpBefore.pos) /\ xp.ev = "EndTag"

\* the yield passed consumes the subtree of every child it is called on: it
\* skips it, or reads its text and the child holds text only
ConsumesChildren ==
    \/ cCall.args.yld = "skip"
    \/ /\ cCall.args.yld = "text"
       /\ \A i \in 1..Len(Children(doc, cCall.xpBefore.pos)) :
              Children(doc, Children(doc, cCall.xpBefore.pos)[i]) = <<>>

\* C19: called with no error recorded on a start tag it expects,
\* ParsingElement runs init once (a failing init ends the call before any
\* child is seen); it then runs yield once on each direct child start tag, in
\* document order, and stops on the end tag of its element, provided yield
\* consumes each child's subtree.
C19_ParsingElementChildren ==
    OnElement("ParsingElement") /\ cCall.errBefore = "" =>
        /\ cCall.args.init # "nil" => cCall.inits = 1
        /\ cCall.args.init = "fail" => cCall.yields = 0 /\ xp = cCall.xpBefore
        /\ cCall.args.init # "fail" /\ ConsumesChildren =>
               /\ cCall.at = Children(doc, cCall.xpBefore.pos)
               /\ cCall.yields = Len(cCall.at)
               /\ OnEndTag
               /\ cCall.ret = ""

\* <a><b>t</b><b><c/></b></a>: yield ran on the two b, not on c
C19_Witness ==
    /\ OnElement("ParsingElement") /\ cCall.errBefore = ""
    /\ cCall.args.init = "ok" /\ cCall.args.yld = "skip"
    /\ cCall.xpBefore.pos = 1
    /\ cCall.at = <<2, 5>>
    /\ cCall.inits = 1
    /\ OnEndTag

\* C20 as stated: WithSkip runs yield once and then skips the subtree of its
\* element, whatever yield returned.
C20_SkipsWhateverYield ==
    OnElement("WithSkip") => cCall.yields = 1 /\ OnEndTag

\* C20: WithSkip runs yield once; when yield returns an error the call returns
\* it at once and the cursor stays on the start tag; otherwise the subtree is
\* skipped, children included, and only then is the end tag checked.
C20_SkipsAfterYield ==
    OnElement("WithSkip") =>
        /\ cCall.yields = 1
        /\ cCall.args.yld = "fail" =>
               cCall.ret = "yield" /\ xp = cCall.xpBefore /\ err = cCall.errBefore
        /\ cCall.args.yld # "fail" =>
               OnEndTag /\ err = cCall.errBefore /\ cCall.ret = cCall.errBefore

\* <a><b>t</b><b><c/></b></a>: WithSkip on a, which holds child elements
C20_Witness ==
    /\ OnElement("WithSkip")
    /\ cCall.args.yld = "ok"
    /\ Children(doc, cCall.xpBefore.pos) # <<>>
    /\ Len(doc) = 9 /\ cCall.xpBefore.pos = 1
    /\ xp.pos = 9 /\ cCall.ret = ""

\* C21: once an error is recorded in the cursor while a caller ranges over
\* the child names, the sequence yields no further name: its next turn ends it.
C21_NoNamesAfterError ==
    [][cPc = "iter" /\ err # "" => cCall'.at = cCall.at /\ cPc' = "ready"]_vars

\* <a><b><c/></b><b/></a>: reading the text of the first b failed, and the
\* sequence ended without yielding the second b
C21_Witness ==
    /\ cCall.op = "MakeChildrenSeq" /\ cPc = "ready" /\ cCall.ret = ""
    /\ cCall.errBefore = "" /\ err # ""
    /\ cCall.xpBefore.pos = 1
    /\ cCall.at = <<2>>
    /\ Len(Children(doc, 1)) = 2

\* C25: once the sticky error of the cursor is set, no later operation of
\* the cursor (text extraction, skip, child-name iteration, the combinators)
\* replaces it: the first recorded error stays in place.
C25_FirstErrorKept == [][err # "" => err' = err]_vars

\* C26: whenever Next fails, or Expect finds a mismatch inside ParsingElement,
\* the failure is recorded in the sticky error: after a call of Next or
\* ParsingElement that returned an error, Err() is not nil.
C26_FailureRecorded ==
    cCall.op \in {"Next", "ParsingElement"} /\ cCall.ret # "" => err # ""

\* ---------------------------------------------------------------------------
\* net/url as XmlBaseResolveUrl uses it: Parse, ResolveReference, String.
\* A URL is [scheme, opaque, host, path], each a string; user, query and
\* fragment do not occur in the inputs.

NewUrl == [scheme |-> <<>>, opaque |-> <<>>, host |-> <<>>, path |-> <<>>]

UrlLetters == {"a", "b", "c", "h"}

Hex == {"0", "2", "a", "b", "c"}

\* the byte written %xy; of the escapes, only %20 occurs in the inputs
ByteOf(x, y) == IF <<x, y>> = <<"2", "0">> THEN Space ELSE "?"

\* url.unescape: [err, v]; Unescaped puts the byte c before the rest r
Unescaped(c, r) == IF r.err # "" THEN r ELSE [r EXCEPT !.v = <<c>> \o @]

RECURSIVE unescape(_)
unescape(s) ==
    IF s = <<>> THEN [err |-> "", v |-> <<>>]
    ELSE IF Head(s) # "%" THEN Unescaped(Head(s), unescape(Tail(s)))
    ELSE IF Len(s) < 3 \/ s[2] \notin Hex \/ s[3] \notin Hex
    THEN [err |-> "invalid URL escape", v |-> <<>>]
    ELSE Unescaped(ByteOf(s[2], s[3]), unescape(SubSeq(s, 4, Len(s))))

\* url.escape in path mode: of the characters of the inputs, only the space
\* is escaped
RECURSIVE EscapedPath(_)
EscapedPath(s) ==
    IF s = <<>> THEN <<>>
    ELSE (IF Head(s) = Space THEN <<"%", "2", "0">> ELSE <<Head(s)>>)
         \o EscapedPath(Tail(s))

\* url.getScheme: the offset of the colon that ends the scheme, -1 when
\* there is no scheme, -2 for "missing protocol scheme"
RECURSIVE getScheme(_, _)
getScheme(s, i) ==
    IF i >= Len(s) THEN -1
    ELSE IF At(s, i) \in UrlLetters THEN getScheme(s, i + 1)
    ELSE IF At(s, i) = "." THEN (IF i = 0 THEN -1 ELSE getScheme(s, i + 1))
    ELSE IF At(s, i) = ":" THEN (IF i = 0 THEN -2 ELSE i)
    ELSE -1

\* strings.Cut(s, "/"): the part before the first slash
FirstSegment(s) ==
    IF Index(s, <<"/">>) < 0 THEN s ELSE Slice(s, 0, Index(s, <<"/">>))

\* the part from the first slash on, empty when there is none
FromSlash(s) ==
    IF Index(s, <<"/">>) < 0 THEN <<>> ELSE SliceFrom(s, Index(s, <<"/">>))

\* url.parseHost, validOptionalPort: a host may end in a colon and digits
HostError(h) ==
    \/ unescape(h).err # ""
    \/ Space \in {h[i] : i \in 1..Len(h)}
    \/ /\ Index(h, <<":">>) >= 0
       /\ \E i \in (Index(h, <<":">>) + 2)..Len(h) : h[i] \notin {"0", "2"}

\* URL.setPath on the URL parsed so far
setPath(u, p) ==
    IF unescape(p).err # "" THEN [err |-> unescape(p).err, url |-> NewUrl]
    ELSE [err |-> "", url |-> [u EXCEPT !.path = unescape(p).v]]

\* url.parse after the scheme has been cut off
parseRest(scheme, rest) ==
    IF ~HasPrefix(rest, <<"/">>) /\ scheme # <<>>
    THEN [err |-> "", url |-> [NewUrl EXCEPT !.scheme = scheme, !.opaque = rest]]
    ELSE IF ~HasPrefix(rest, <<"/">>) /\ Contains(FirstSegment(rest), <<":">>)
    THEN [err |-> "first path segment in URL cannot contain colon", url |-> NewUrl]
    ELSE IF HasPrefix(rest, <<"/", "/">>)
            /\ (scheme # <<>> \/ ~HasPrefix(rest, <<"/", "/", "/">>))
    THEN IF HostError(FirstSegment(SliceFrom(rest, 2)))
         THEN [err |-> "invalid host", url |-> NewUrl]
         ELSE setPath([NewUrl EXCEPT !.scheme = scheme,
                                     !.host = FirstSegment(SliceFrom(rest, 2))],
                      FromSlash(SliceFrom(rest, 2)))
    ELSE setPath([NewUrl EXCEPT !.scheme = scheme], rest)

\* url.Parse: [err, url]
UrlParse(u) ==
    IF getScheme(u, 0) = -2 THEN [err |-> "missing protocol scheme", url |-> NewUrl]
    ELSE IF getScheme(u, 0) = -1 THEN parseRest(<<>>, u)
    ELSE parseRest(Slice(u, 0, getScheme(u, 0)), SliceFrom(u, getScheme(u, 0) + 1))

\* strings.LastIndexByte(s, '/')
LastSlash(s) ==
    IF \A i \in 1..Len(s) : s[i] # "/" THEN -1
    ELSE (CHOOSE i \in 1..Len(s) :
              s[i] = "/" /\ \A j \in (i + 1)..Len(s) : s[j] # "/") - 1

\* url.resolvePath, one turn of its loop on the element cut off: the
\* destination written so far and the flag first
DotElem(dst, first, elem) ==
    IF elem = <<".">> THEN [dst |-> dst, first |-> FALSE]
    ELSE IF elem = <<".", ".">>
    THEN IF LastSlash(Tail(dst)) = -1 THEN [dst |-> <<"/">>, first |-> TRUE]
         ELSE [dst |-> <<"/">> \o Slice(Tail(dst), 0, LastSlash(Tail(dst))),
               first |-> first]
    ELSE [dst |-> (IF first THEN dst ELSE dst \o <<"/">>) \o elem, first |-> FALSE]

\* the end of url.resolvePath: r the destination written
DotsEnd(r) == IF Len(r) > 1 /\ r[2] = "/" THEN Tail(r) ELSE r

RECURSIVE DotsLoop(_, _)
DotsLoop(remaining, d) ==
    IF Index(remaining, <<"/">>) < 0
    THEN DotsEnd(DotElem(d.dst, d.first, remaining).dst
                 \o (IF remaining \in {<<".">>, <<".", ".">>}
                     THEN <<"/">> ELSE <<>>))
    ELSE DotsLoop(SliceFrom(remaining, Index(remaining, <<"/">>) + 1),
                  DotElem(d.dst, d.first, FirstSegment(remaining)))

\* url.resolvePath on the full path
removeDots(full) ==
    IF full = <<>> THEN <<>>
    ELSE DotsLoop(full, [dst |-> <<"/">>, first |-> TRUE])

resolvePath(base, ref) ==
    IF ref = <<>> THEN removeDots(base)
    ELSE IF Head(ref) # "/"
    THEN removeDots(Slice(base, 0, LastSlash(base) + 1) \o ref)
    ELSE removeDots(ref)

\* URL.ResolveReference
ResolveReference(u, ref) ==
    IF ref.scheme # <<>> \/ ref.host # <<>>
    THEN [ref EXCEPT !.scheme = IF @ = <<>> THEN u.scheme ELSE @,
                     !.path = unescape(resolvePath(EscapedPath(@), <<>>)).v]
    ELSE IF ref.path = <<>> /\ u.opaque # <<>>
    THEN [scheme |-> u.scheme, opaque |-> u.opaque, host |-> <<>>, path |-> <<>>]
    ELSE [scheme |-> u.scheme, opaque |-> <<>>, host |-> u.host,
          path |-> unescape(resolvePath(EscapedPath(u.path),
                                        EscapedPath(ref.path))).v]

\* URL.String
UrlString(u) ==
    (IF u.scheme # <<>> THEN u.scheme \o <<":">> ELSE <<>>)
    \o (IF u.opaque # <<>> THEN u.opaque
        ELSE (IF (u.scheme # <<>> \/ u.host # <<>>)
                 /\ (u.host # <<>> \/ u.path # <<>>)
              THEN <<"/", "/">> \o u.host ELSE <<>>)
             \o (IF u.path # <<>> /\ Head(u.path) # "/" /\ u.host # <<>>
                 THEN <<"/">> ELSE <<>>)
             \o (IF u.scheme = <<>> /\ u.host = <<>>
                    /\ Contains(FirstSegment(u.path), <<":">>)
                 THEN <<".", "/">> ELSE <<>>)
             \o EscapedPath(u.path))

\* ---------------------------------------------------------------------------
\* xml:base. A *url.URL is a list of one URL, or of none for nil.

uriAttrs == {"href", "scheme", "src", "uri"}

\* the base after "b.Path += /"
AsDirectory(b, u) ==
    IF b.path # <<>> /\ u # <<>> /\ b.path[Len(b.path)] # "/"
    THEN [b EXCEPT !.path = @ \o <<"/">>] ELSE b

\* XmlBaseResolveUrl once u is parsed as r and b is not nil; the URL b points
\* to is b.Path-extended in place, so the result carries it
resolveAgainst(b, r) ==
    [err |-> "", url |-> <<ResolveReference(b, r)>>, base |-> <<b>>]

XmlBaseResolveUrlMutant(b, u) ==
    IF UrlParse(u).err # "" THEN [err |-> UrlParse(u).err, url |-> <<>>, base |-> b]
    ELSE IF b = <<>> THEN [err |-> "", url |-> <<UrlParse(u).url>>, base |-> b]
    ELSE resolveAgainst(b[1], UrlParse(u).url)

XmlBaseResolveUrl(b, u) ==
    IF UrlParse(u).err # "" THEN [err |-> UrlParse(u).err, url |-> <<>>, base |-> b]
    ELSE IF b = <<>> THEN [err |-> "", url |-> <<UrlParse(u).url>>, base |-> b]
    ELSE resolveAgainst(AsDirectory(b[1], u), UrlParse(u).url)

\* resolveAttrs, one turn of its loop on attribute i: r is what
\* XmlBaseResolveUrl returned for its value
attrResolved(attrs, i, r) ==
    [attrs |-> IF r.err = "" /\ r.url # <<>>
               THEN [attrs EXCEPT ![i].value = UrlString(r.url[1])] ELSE attrs,
     base |-> r.base]

RECURSIVE resolveAttrsMutant(_, _, _)
resolveAttrsMutant(b, attrs, i) ==
    IF i > Len(attrs) THEN [attrs |-> attrs, base |-> b, err |-> ""]
    ELSE IF ToLower(attrs[i].name) \notin uriAttrs THEN resolveAttrsMutant(b, attrs, i + 1)
    ELSE IF UrlParse(attrs[i].value).err # "" THEN [attrs |-> attrs, base |-> b, err |-> ""]
    ELSE resolveAttrsMutant(XmlBaseResolveUrl(b, attrs[i].value).base,
                      attrResolved(attrs, i, XmlBaseResolveUrl(b, attrs[i].value)).attrs,
                      i + 1)

\* resolveAttrs from attribute i on, b being BaseStack.Top()
RECURSIVE resolveAttrs(_, _, _)
resolveAttrs(b, attrs, i) ==
    IF i > Len(attrs) THEN [attrs |-> attrs, base |-> b, err |-> ""]
    ELSE IF ToLower(attrs[i].name) \notin uriAttrs THEN resolveAttrs(b, attrs, i + 1)
    ELSE resolveAttrs(XmlBaseResolveUrl(b, attrs[i].value).base,
                      attrResolved(attrs, i, XmlBaseResolveUrl(b, attrs[i].value)).attrs,
                      i + 1)

\* the atom parsers' resolveAttrs: nothing to do without a base
atomResolveAttrs(b, attrs) ==
    IF b = <<>> THEN [attrs |-> attrs, base |-> b, err |-> ""]
    ELSE resolveAttrs(b, attrs, 1)

Url(scheme, host, path) == [scheme |-> scheme, opaque |-> <<>>, host |-> host, path |-> path]

Http == <<"h", "t", "t", "p">>

\* BaseStack.Top(): no base, http://a, http://a/b, http://a/b/, http://a/b/c
Bases ==
    {<<>>} \cup {<<Url(Http, <<"a">>, p)>> :
                    p \in {<<>>, <<"/", "b">>, <<"/", "b", "/">>, <<"/", "b", "/", "c">>}}

MaxRef == 3

\* the references resolved
Refs ==
    SeqsUpTo({"c", "/", ".", ":"}, MaxRef)
    \cup {<<"%">>, <<"c", " ", "c">>, <<".", ".", "/", "c">>, <<"c", "/", ".", ".">>,
          <<"b", ":", "/", "/", "h", "/", "c">>, <<"/", "/", "h", "/", ".", ".">>}

\* shared.XmlBaseResolveUrl(b, u), atom xmlBaseResolveUrl(b, u)
FnXmlBaseResolveUrl ==
    /\ fnPc = "call" /\ fnOp = "XmlBaseResolveUrl"
    /\ fnOut' = XmlBaseResolveUrl(fnIn.b, fnIn.u)
    /\ fnPc' = "done"
    /\ UNCHANGED <<fnOp, fnIn, exceptFn>>

MaxAttrs == 2

AttrInputs ==
    SeqsUpTo({[name |-> n, value |-> v] :
                 n \in {"href", "HREF", "src", "title"},
                 v \in {<<"c">>, <<"%">>, <<>>, <<"c", " ", "c">>}}, MaxAttrs)

AttrBases == {b \in Bases : b = <<>> \/ Len(b[1].path) \in 2..3}

\* shared.NextTag on a start tag: resolveAttrs(p)
FnSharedResolveAttrs ==
    /\ fnPc = "call" /\ fnOp = "shared.resolveAttrs"
    /\ fnOut' = resolveAttrs(fnIn.b, fnIn.attrs, 1)
    /\ fnPc' = "done"
    /\ UNCHANGED <<fnOp, fnIn, exceptFn>>

\* atom Parser.nextTag on a start tag: ap.resolveAttrs()
FnAtomResolveAttrs ==
    /\ fnPc = "call" /\ fnOp = "atom.resolveAttrs"
    /\ fnOut' = atomResolveAttrs(fnIn.b, fnIn.attrs)
    /\ fnPc' = "done"
    /\ UNCHANGED <<fnOp, fnIn, exceptFn>>

\* a reference that parses and has no scheme
IsRelative(u) == UrlParse(u).err = "" /\ UrlParse(u).url.scheme = <<>>

\* the base b read as a directory
Directory(b) ==
    IF b.path # <<>> /\ b.path[Len(b.path)] # "/"
    THEN [b EXCEPT !.path = @ \o <<"/">>] ELSE b

\* XmlBaseResolveUrl has returned for a relative reference and an active base
ResolvedRelative ==
    /\ fnPc = "done" /\ fnOp = "XmlBaseResolveUrl"
    /\ fnIn.b # <<>> /\ IsRelative(fnIn.u)

HttpABC == Http \o <<":", "/", "/", "a", "/", "b", "/", "c">>

\* C16 as stated: with an active base, every relative reference is resolved
\* by reference resolution against the base read as a directory.
C16_BaseAsDirectory ==
    ResolvedRelative =>
        /\ fnOut.err = ""
        /\ fnOut.url = <<ResolveReference(Directory(fnIn.b[1]), UrlParse(fnIn.u).url)>>

\* C16: with an active base, every non-empty relative reference is resolved by
\* reference resolution against the base read as a directory (a non-empty
\* base path lacking a trailing slash gets one), so that c against http://a/b
\* and against http://a/b/ both give http://a/b/c.
C16_NonEmptyAgainstDirectory ==
    ResolvedRelative /\ fnIn.u # <<>> =>
        /\ fnOut.err = ""
        /\ fnOut.url = <<ResolveReference(Directory(fnIn.b[1]), UrlParse(fnIn.u).url)>>
        /\ fnIn.u = <<"c">> /\ fnIn.b[1].path \in {<<"/", "b">>, <<"/", "b", "/">>}
               => UrlString(fnOut.url[1]) = HttpABC

C16_Witness ==
    /\ ResolvedRelative
    /\ fnIn.u = <<"c">> /\ fnIn.b[1].path = <<"/", "b">>
    /\ UrlString(fnOut.url[1]) = HttpABC

\* resolveAttrs has returned
AttrsResolved == fnPc = "done" /\ fnOp \in {"shared.resolveAttrs", "atom.resolveAttrs"}

IsUriAttr(a) == ToLower(a.name) \in uriAttrs

\* the base attribute i is resolved against: the base b, read as a directory
\* once an earlier non-empty reference has been resolved against it
BaseBefore(b, attrs, i) ==
    IF b # <<>> /\ \E j \in 1..(i - 1) :
                       /\ IsUriAttr(attrs[j]) /\ attrs[j].value # <<>>
                       /\ UrlParse(attrs[j].value).err = ""
    THEN <<Directory(b[1])>> ELSE b

\* the value of a URI attribute after the hook, r being its resolution
ResolvedValue(a, r) == IF r.err = "" THEN UrlString(r.url[1]) ELSE a.value

\* C15: the hook never fails and changes no attribute but those named href,
\* scheme, src or uri; with an active base each of these holds its resolved
\* form when its resolution succeeds and its original value when it fails,
\* whatever happened to the attributes before it.
C15_OnlyUriAttrsRewritten ==
    AttrsResolved =>
        /\ fnOut.err = ""
        /\ Len(fnOut.attrs) = Len(fnIn.attrs)
        /\ \A i \in 1..Len(fnIn.attrs) :
            /\ fnOut.attrs[i].name = fnIn.attrs[i].name
            /\ ~IsUriAttr(fnIn.attrs[i]) => fnOut.attrs[i] = fnIn.attrs[i]
            /\ IsUriAttr(fnIn.attrs[i]) /\ fnIn.b # <<>> =>
                   fnOut.attrs[i].value =
                       ResolvedValue(fnIn.attrs[i],
                                     XmlBaseResolveUrl(BaseBefore(fnIn.b, fnIn.attrs, i),
                                                       fnIn.attrs[i].value))
            /\ IsUriAttr(fnIn.attrs[i]) /\ fnIn.b = <<>> =>
                   fnOut.attrs[i].value \in
                       {fnIn.attrs[i].value,
                        ResolvedValue(fnIn.attrs[i],
                                      XmlBaseResolveUrl(<<>>, fnIn.attrs[i].value))}

C15_Witness ==
    /\ AttrsResolved
    /\ fnIn.b # <<>>
    /\ fnIn.attrs = <<[name |-> "href", value |-> <<"%">>],
                      [name |-> "src", value |-> <<"c">>]>>
    /\ fnOut.attrs[1].value = <<"%">>
    /\ fnOut.attrs[2].value = HttpABC

\* C27: resolving a reference never modifies the base URI on the base-URI
\* stack, and the result of a resolution is the same whatever was resolved
\* against that base before: after the hook has run over a start tag the base is
\* as it was and every URI attribute whose resolution succeeds holds its value
\* resolved against that base.
C27_BaseNeverModified ==
    /\ fnPc = "done" /\ fnOp = "XmlBaseResolveUrl" => fnOut.base = fnIn.b
    /\ AttrsResolved /\ fnIn.b # <<>> =>
          /\ fnOut.base = fnIn.b
          /\ \A i \in 1..Len(fnIn.attrs) :
                IsUriAttr(fnIn.attrs[i]) =>
                    fnOut.attrs[i].value =
                        ResolvedValue(fnIn.attrs[i],
                                      XmlBaseResolveUrl(fnIn.b, fnIn.attrs[i].value))

\* ---------------------------------------------------------------------------
\* Atom text constructs

\* the place of a character in the base64 alphabet, -1 outside it
B64Val(c) ==
    CASE c = "I" -> 8 [] c = "J" -> 9 [] c = "Q" -> 16 [] c = "W" -> 22
      [] c = "Y" -> 24 [] c = "a" -> 26 [] c = "b" -> 27 [] c = "c" -> 28
      [] c = "j" -> 35 [] OTHER -> -1

\* string(b) for the bytes the inputs decode to
ByteChar(n) ==
    CASE n = 97 -> "a" [] n = 98 -> "b" [] n = 99 -> "c" [] OTHER -> "?"

\* the bytes of one quantum of four characters, rest being what follows it
Quantum(q, rest) ==
    IF B64Val(q[1]) < 0 \/ B64Val(q[2]) < 0 THEN [err |-> "base64", v |-> <<>>]
    ELSE IF q[3] = "="
    THEN IF q[4] = "=" /\ rest = <<>>
         THEN [err |-> "", v |-> <<ByteChar(B64Val(q[1]) * 4 + B64Val(q[2]) \div 16)>>]
         ELSE [err |-> "base64", v |-> <<>>]
    ELSE IF B64Val(q[3]) < 0 THEN [err |-> "base64", v |-> <<>>]
    ELSE IF q[4] = "="
    THEN IF rest = <<>>
         THEN [err |-> "",
               v |-> <<ByteChar(B64Val(q[1]) * 4 + B64Val(q[2]) \div 16),
                       ByteChar((B64Val(q[2]) % 16) * 16 + B64Val(q[3]) \div 4)>>]
         ELSE [err |-> "base64", v |-> <<>>]
    ELSE IF B64Val(q[4]) < 0 THEN [err |-> "base64", v |-> <<>>]
    ELSE [err |-> "",
          v |-> <<ByteChar(B64Val(q[1]) * 4 + B64Val(q[2]) \div 16),
                  ByteChar((B64Val(q[2]) % 16) * 16 + B64Val(q[3]) \div 4),
                  ByteChar((B64Val(q[3]) % 4) * 64 + B64Val(q[4]))>>]

\* the bytes b decoded so far put before the rest r
Decoded(b, r) ==
    IF b.err # "" THEN b ELSE IF r.err # "" THEN r ELSE [r EXCEPT !.v = b.v \o @]

\* base64.StdEncoding.DecodeString: [err, v]
RECURSIVE DecodeString(_)
DecodeString(s) ==
    IF s = <<>> THEN [err |-> "", v |-> <<>>]
    ELSE IF Len(s) < 4 THEN [err |-> "base64", v |-> <<>>]
    ELSE Decoded(Quantum(SubSeq(s, 1, 4), SubSeq(s, 5, Len(s))),
                 DecodeString(SubSeq(s, 5, Len(s))))

\* the declared types of the model that begin with text/
TextSlashTypes == {"text/plain"}

\* the declared types of the model that contain /xhtml
SlashXhtmlTypes == {"application/xhtml+xml", "application/xhtml"}

\* the characters of the declared types of the model
TypeChars(t) ==
    CASE t = "text" -> <<"t", "e", "x", "t">>
      [] t = "html" -> <<"h", "t", "m", "l">>
      [] t = "xhtml" -> <<"x", "h", "t", "m", "l">>
      [] t = "image/png" -> <<"i", "m", "a", "g", "e", "/", "p", "n", "g">>
      [] t = "text/plain" -> <<"t", "e", "x", "t", "/", "p", "l", "a", "i", "n">>
      [] t = "application/xhtml+xml" -> <<"a", "p", "p", "l", "i", "c", "a", "t", "i", "o", "n", "/", "x", "h", "t", "m", "l", "+", "x", "m", "l">>
      [] t = "application/xhtml" -> <<"a", "p", "p", "l", "i", "c", "a", "t", "i", "o", "n", "/", "x", "h", "t", "m", "l">>
      [] OTHER -> <<>>

SlashXhtml == <<"/", "x", "h", "t", "m", "l">>

\* strings.HasSuffix
HasSuffix(s, x) == Len(x) <= Len(s) /\ SubSeq(s, Len(s) - Len(x) + 1, Len(s)) = x

\* textAttributes.XHTML
XHTMLMutant(type) == type = "xhtml" \/ HasSuffix(TypeChars(type), SlashXhtml)

XHTML(type) == type = "xhtml" \/ Contains(TypeChars(type), SlashXhtml)

\* textAttributes.Encoded, src/atom/text.go 14-19
EncodedV1(type, mode) ==
    ~(type = "text" \/ type = "html" \/ type \in TextSlashTypes
      \/ (type = "" /\ mode = ""))

\* textAttributes.Encoded, src/atom/text.go 39-48
Encoded(type, mode) ==
    IF mode = "base64" THEN TRUE
    ELSE ~(type = "text" \/ type = "html" \/ type \in TextSlashTypes
           \/ (type = "" /\ mode = ""))

atomUriElements == {"icon", "id", "logo", "uri", "url"}

\* the end of parseAtomText: the text as it is, or resolved against the base
\* when the element holds a URI; r is what the resolver returned
uriText(name, result, r) ==
    IF ToLower(name) \in atomUriElements /\ r.err = "" /\ r.url # <<>>
    THEN [err |-> "", v |-> UrlString(r.url[1])]
    ELSE [err |-> "", v |-> result]

\* parseAtomText: in.type and in.mode are the attributes of the element,
\* in.inner what xhtmlContent returns, in.text what shared.ParseText returns,
\* in.b the base at the element; encoded is attrs.Encoded()
parseAtomText(in, encoded) ==
    IF XHTML(ToLower(in.type)) THEN in.inner
    ELSE IF in.text.err # "" THEN [err |-> in.text.err, v |-> <<>>]
    ELSE IF encoded /\ DecodeString(in.text.v).err = ""
    THEN [err |-> "", v |-> DecodeString(in.text.v).v]
    ELSE uriText(in.name, in.text.v, XmlBaseResolveUrl(in.b, in.text.v))

TextTypes ==
    {"", "text", "Text", "html", "xhtml", "image/png"} \cup TextSlashTypes \cup SlashXhtmlTypes

TextModes == {"", "base64", "xml"}

\* what shared.ParseText returns for the element
TextResults ==
    {[err |-> "", v |-> v] :
        v \in {<<>>, <<"Y", "Q", "=", "=">>, <<"Y", "W", "I", "=">>, <<"Y", "W", "J", "j">>,
               <<"Y", "Q", "=">>, <<"Y", "Q", "=", "=", "Y", "Q", "=", "=">>,
               <<"a">>, <<"c", " ", "c">>}}
    \cup {[err |-> "text", v |-> <<>>]}

AtomTextInputs ==
    {[type |-> t, mode |-> m, text |-> x, name |-> n, b |-> b,
      inner |-> [err |-> "", v |-> <<"d">>]] :
        t \in TextTypes, m \in TextModes, x \in TextResults,
        n \in {"content", "icon"}, b \in {b \in Bases : b = <<>> \/ Len(b[1].path) = 2}}

\* parseAtomText with Encoded of src/atom/text.go 39-48
FnParseAtomText ==
    /\ fnPc = "call" /\ fnOp = "atom.parseAtomText"
    /\ fnOut' = parseAtomText(fnIn, Encoded(ToLower(fnIn.type), fnIn.mode))
    /\ fnPc' = "done"
    /\ UNCHANGED <<fnOp, fnIn, exceptFn>>

\* parseAtomText with Encoded of src/atom/text.go 14-19
FnParseAtomTextV1 ==
    /\ fnPc = "call" /\ fnOp = "atom.parseAtomText.v1"
    /\ fnOut' = parseAtomText(fnIn, EncodedV1(ToLower(fnIn.type), fnIn.mode))
    /\ fnPc' = "done"
    /\ UNCHANGED <<fnOp, fnIn, exceptFn>>

\* parseAtomText has returned for an element that is no xhtml construct and
\* holds no URI, and whose text was read
AtomTextRead ==
    /\ fnPc = "done" /\ fnOp \in {"atom.parseAtomText", "atom.parseAtomText.v1"}
    /\ fnIn.text.err = ""
    /\ ~XHTML(ToLower(fnIn.type))
    /\ fnIn.name \notin atomUriElements

\* the claim's texts: mode base64, or a type that is none of empty, text,
\* text/*, html (xhtml is excluded above)
ClaimedEncoded(type, mode) ==
    mode = "base64" \/ ~(type = "" \/ type = "text" \/ type = "html" \/ type \in TextSlashTypes)

\* C14: an Atom text whose mode is base64, or whose type is none of empty,
\* text, text/*, html, xhtml, is returned base64-decoded when it is valid
\* base64 and unchanged, without error, when it is not.
C14_Base64WhenEncoded ==
    AtomTextRead /\ ClaimedEncoded(ToLower(fnIn.type), fnIn.mode) =>
        /\ fnOut.err = ""
        /\ fnOut.v = IF DecodeString(fnIn.text.v).err = ""
                     THEN DecodeString(fnIn.text.v).v ELSE fnIn.text.v

\* parseAtomText has returned what xhtmlContent gave: the inner markup of the
\* wrapping div
HandledAsXhtml ==
    /\ fnPc = "done" /\ fnOp \in {"atom.parseAtomText", "atom.parseAtomText.v1"}
    /\ fnOut = fnIn.inner

AtomTextDone == fnPc = "done" /\ fnOp \in {"atom.parseAtomText", "atom.parseAtomText.v1"}

ExtElements ==
    {KidOtherEncoded,
     Wrap("encoded", OtherNS, <<>>,
          Wrap("b", OtherNS, <<>>, <<Txt(<<"1">>)>>) \o <<Txt(<<"f">>)>>
          \o Wrap("b", OtherNS, <<>>, <<Txt(<<"2">>)>>)),
     Wrap("foo", OtherNS, <<>>, <<Txt(<<"e">>)>>),
     <<STag("foo", OtherNS, <<>>), XErr>>}

NodeE == ExtNode("encoded", {}, <<"e">>, <<>>)

NodeF ==
    ExtNode("encoded", {}, <<"f">>,
            <<ExtNode("b", {}, <<"1">>, <<>>), ExtNode("b", {}, <<"2">>, <<>>)>>)

\* the maps the element is added to
ExtMaps ==
    {[EmptyExt EXCEPT ![<<"x", "encoded">>] = l, ![<<"x", "foo">>] = m] :
        l \in {<<>>, <<NodeE>>, <<NodeF>>, <<NodeE, NodeF>>, <<NodeF, NodeE>>, <<NodeE, NodeE>>},
        m \in {<<>>, <<ExtNode("foo", {}, <<"e">>, <<>>)>>}}

\* the grammars' calls of shared.ParseExtension(fe, p), the cursor being on
\* the start tag of the element
FnParseExtension ==
    /\ fnPc = "call" /\ fnOp = "shared.ParseExtension"
    /\ fnOut' = ParseExtension(fnIn.d, xppNext(fnIn.d, NewXp).p, fnIn.fe)
    /\ fnPc' = "done"
    /\ UNCHANGED <<fnOp, fnIn, exceptFn>>

\* ParseExtension has captured the element
Captured == fnPc = "done" /\ fnOp = "shared.ParseExtension" /\ fnOut.err = ""

\* the key of the element captured
OwnKey == <<PrefixForNamespace(fnIn.d[1].sp), fnIn.d[1].n>>

\* C18: capturing an element adds exactly one node, of the element's name, at
\* the end of the list of the element's (prefix, name) key, and leaves the
\* nodes already stored there and every other list as they were.
C18_AppendOnly ==
    Captured =>
        /\ Len(fnOut.ext[OwnKey]) = Len(fnIn.fe[OwnKey]) + 1
        /\ SubSeq(fnOut.ext[OwnKey], 1, Len(fnIn.fe[OwnKey])) = fnIn.fe[OwnKey]
        /\ fnOut.ext[OwnKey][Len(fnOut.ext[OwnKey])].name = fnIn.d[1].n
        /\ \A k \in ExtKeys \ {OwnKey} : fnOut.ext[k] = fnIn.fe[k]

\* an element equal to one already stored is stored again, last
C18_Witness ==
    /\ Captured
    /\ fnIn.fe[<<"x", "encoded">>] = <<NodeF, NodeE>>
    /\ fnOut.ext[<<"x", "encoded">>] = <<NodeF, NodeE, NodeF>>

\* ---------------------------------------------------------------------------
\* The iTunes item sub-grammar (internal/itunes/item.go)

\* the case labels of itemParser.body that store the element's text, each
\* naming the field it stores to
ItemTextCases ==
    {"author", "block", "duration", "explicit", "subtitle", "summary", "keywords",
     "isClosedCaptioned", "episode", "season", "order", "episodeType"}

\* ext.ITunesItemExtension: the text fields, and Image
NewITunesItem == [f \in ItemTextCases \cup {"image"} |-> <<>>]

\* XMLPullParser.Attribute: the value of the first attribute of that name
Attribute(x, name) ==
    LET hits == {i \in 1..Len(x.attrs) : ToLower(x.attrs[i].name) = ToLower(name)}
    IN  IF hits = {} THEN <<>>
        ELSE <<x.attrs[CHOOSE i \in hits : \A j \in hits : i <= j].value>>

\* itemParser.image once WithSkip has returned r
ItemImage(x, itunes, r) ==
    IF r.ret # "" THEN [p |-> r.p, err |-> r.err, self |-> r.ret, itunes |-> itunes]
    ELSE [p |-> r.p, err |-> r.err, self |-> "",
          itunes |-> [itunes EXCEPT !["image"] = Attribute(x, "href")]]

\* the assignment of a text case once Text has returned t, and the default
\* case once Skip has returned k
ItemField(itunes, field, t) ==
    [p |-> t.p, err |-> t.err, self |-> "", itunes |-> [itunes EXCEPT ![field] = t.v]]

ItemSkipped(itunes, k) == [p |-> k.p, err |-> k.err, self |-> "", itunes |-> itunes]

\* itemParser.body: the switch on name
ItemBody(d, x, e, name, itunes) ==
    IF name \in ItemTextCases THEN ItemField(itunes, name, ParserText(d, x, e))
    ELSE IF name = "image" THEN ItemImage(x, itunes, WithSkip(d, x, e, name, "ok"))
    ELSE ItemSkipped(itunes, ParserSkip(d, x, e))

\* itemParser.Err
ItemErr(b) ==
    IF b.self # "" THEN b.self
    ELSE IF b.err # "" THEN "itunes: " \o b.err
    ELSE ""

\* itemParser.Parse once body has returned b; nil stands for the nil pointer
ItemParsed(name, b) ==
    IF ItemErr(b) # "" THEN [err |-> ItemErr(b), nil |-> TRUE, itunes |-> NewITunesItem]
    ELSE IF ParserExpect(b.p, "EndTag", name) # ""
    THEN [err |-> "itunes: " \o ParserExpect(b.p, "EndTag", name), nil |-> TRUE,
          itunes |-> NewITunesItem]
    ELSE [err |-> "", nil |-> FALSE, itunes |-> b.itunes]

\* itemParser.Parse, the cursor x being on the start tag of the element
ItemParse(d, x, e, itunes) ==
    ItemParsed(ToLower(x.name), ItemBody(d, x, e, ToLower(x.name), itunes))

ITunesNS == "http://www.itunes.com/dtds/podcast-1.0.dtd"

HrefAttr == <<[name |-> "href", value |-> "u"]>>

\* the elements ParseItem is called on: <itunes:name href="u">t</itunes:name>,
\* the same with a child element, and the empty element
ITunesElements ==
    {Wrap(n, ITunesNS, HrefAttr, body) :
        n \in ItemTextCases \cup {"image", "Author", "foo"},
        body \in {<<Txt(<<"t">>)>>, <<>>, Wrap("b", "", <<>>, <<>>)}}

\* ParseItem(p, itunes) with the cursor on the start tag of the element d
FnParseItem ==
    /\ fnPc = "call" /\ fnOp = "itunes.ParseItem"
    /\ fnOut' = ItemParse(fnIn.d, NextToken(fnIn.d, NewXp).p, "", fnIn.itunes)
    /\ fnPc' = "done"
    /\ UNCHANGED <<fnOp, fnIn, exceptFn>>

\* C30: every element name the dispatch of the iTunes item sub-grammar lists,
\* isClosedCaptioned and episodeType included, is reachable: an element of
\* that name that holds text has the text stored in the field of that name.
C30_DispatchReachable ==
    /\ fnPc = "done" /\ fnOp = "itunes.ParseItem"
    /\ fnIn.d[1].n \in ItemTextCases /\ Len(fnIn.d) = 3 /\ fnIn.d[2].k = "Text"
    => /\ fnOut.err = ""
       /\ fnOut.itunes[fnIn.d[1].n] = fnIn.d[2].tx

\* ---------------------------------------------------------------------------
\* The helpers above, each called once on one input

FnInputs(op) ==
    IF op \in DateOps THEN DateInputs
    ELSE IF op = "XmlBaseResolveUrl" THEN {[b |-> b, u |-> u] : b \in Bases, u \in Refs}
    ELSE IF op \in {"shared.resolveAttrs", "atom.resolveAttrs"}
    THEN {[b |-> b, attrs |-> a] : b \in AttrBases, a \in AttrInputs}
    ELSE IF op \in {"atom.parseAtomText", "atom.parseAtomText.v1"} THEN AtomTextInputs
    ELSE IF op = "shared.ParseExtension"
    THEN {[fe |-> fe, d |-> d] : fe \in ExtMaps, d \in ExtElements}
    ELSE IF op = "itunes.ParseItem"
    THEN {[d |-> d, itunes |-> i] :
             d \in ITunesElements,
             i \in {NewITunesItem, [NewITunesItem EXCEPT !["author"] = <<"o">>]}}
    ELSE {}

FnOps ==
    DateOps \cup {"XmlBaseResolveUrl", "shared.resolveAttrs", "atom.resolveAttrs",
                  "atom.parseAtomText", "atom.parseAtomText.v1", "shared.ParseExtension",
                  "itunes.ParseItem"}

FnInit ==
    /\ fnOp \in FnOps
    /\ fnIn \in FnInputs(fnOp)
    /\ fnOut = Nil
    /\ fnPc = "call"
    /\ CdataIdle /\ XmlIdle /\ CursorIdle /\ RssIdle /\ DetectIdle /\ ParseIdle

FnNext ==
    \/ FnRssParseDate
    \/ FnAtomParseDate
    \/ FnParseAtomDateTo
    \/ FnXmlBaseResolveUrl
    \/ FnSharedResolveAttrs
    \/ FnAtomResolveAttrs
    \/ FnParseAtomText
    \/ FnParseAtomTextV1
    \/ FnParseExtension
    \/ FnParseItem

SpecFn == FnInit /\ [][FnNext]_vars

====
